---- MODULE Spec2Model ----
(***************************************************************************)
(* Model of the irregularity-and-relationship analysis engine of the       *)
(* public-contracts monitor: the association / conflict-of-interest store  *)
(* (src/associations.py over src/database.py) and the suspicious-pattern   *)
(* detector (src/suspicious_patterns.py).                                  *)
(*                                                                         *)
(* Text is modelled as a sequence of characters, one TLA+ string per       *)
(* character.  An accented character is written as one token made of the   *)
(* base letter and an ASCII mark: "a^" is a-circumflex, "a~" a-tilde,      *)
(* "e'" e-acute, "c," c-cedilla, and so on; "A^" is the capital of "a^".   *)
(* SQL NULL / Python None is NULL for a text column and SemValor (the      *)
(* empty tuple) for a numeric one; a number n is stored as <<n>>.          *)
(***************************************************************************)
EXTENDS Integers, Sequences, FiniteSets, TLC

VARIABLES
    pessoas,        \* table pessoas, in rowid order
    cargos,         \* table cargos_politicos, in rowid order
    associacoes,    \* table associacoes_pessoa_empresa, in rowid order
    contratos,      \* table contratos (id_contrato is UNIQUE): a set of rows
    conflitos,      \* table conflitos_interesse, in rowid order
    retorno,        \* what the last call returned (or that it raised)
    fios,           \* the concurrent detectar_conflitos_interesse calls
    lista,          \* the contract list handed to analisar_contratos
    analise,        \* what analisar_contratos returned for lista
    figuras,        \* table figuras_interesse, in rowid order
    entrada         \* the arguments of the call of a function without state

vars == <<pessoas, cargos, associacoes, contratos, conflitos, retorno, fios,
          lista, analise, figuras, entrada>>

-----------------------------------------------------------------------------
(* Text values.                                                            *)

NULL == <<"NULL">>
SemValor == <<>>

\* 'João Silva'
JoaoSilva == <<"J", "o", "a~", "o", " ", "S", "i", "l", "v", "a">>
\* 'Ana Costa'
AnaCosta == <<"A", "n", "a", " ", "C", "o", "s", "t", "a">>
\* 'Presidente da Câmara'
PresidenteDaCamara == <<"P", "r", "e", "s", "i", "d", "e", "n", "t", "e", " ",
    "d", "a", " ", "C", "a^", "m", "a", "r", "a">>
\* 'Vereador'
Vereador == <<"V", "e", "r", "e", "a", "d", "o", "r">>
\* 'Câmara Municipal de Lisboa'
CamaraMunicipalLisboa == <<"C", "a^", "m", "a", "r", "a", " ", "M", "u", "n",
    "i", "c", "i", "p", "a", "l", " ", "d", "e", " ", "L", "i", "s", "b", "o",
    "a">>
\* 'Junta de Freguesia de Belém'
JuntaFreguesiaBelem == <<"J", "u", "n", "t", "a", " ", "d", "e", " ", "F", "r",
    "e", "g", "u", "e", "s", "i", "a", " ", "d", "e", " ", "B", "e", "l", "e'",
    "m">>
\* 'Empresa Privada SA'
EmpresaPrivada == <<"E", "m", "p", "r", "e", "s", "a", " ", "P", "r", "i", "v",
    "a", "d", "a", " ", "S", "A">>
\* 'Construtora Silva & Filhos Lda'
ConstrutoraSilva == <<"C", "o", "n", "s", "t", "r", "u", "t", "o", "r", "a",
    " ", "S", "i", "l", "v", "a", " ", "&", " ", "F", "i", "l", "h", "o", "s",
    " ", "L", "d", "a">>
\* 'Consultoria JPS Lda'
ConsultoriaJPS == <<"C", "o", "n", "s", "u", "l", "t", "o", "r", "i", "a", " ",
    "J", "P", "S", " ", "L", "d", "a">>

\* str.lower(): every capital, accented ones included, maps to its small letter.
Maiusculas == <<"A", "B", "C", "D", "E", "F", "G", "H", "I", "J", "K", "L", "M",
    "N", "O", "P", "Q", "R", "S", "T", "U", "V", "W", "X", "Y", "Z",
    "A^", "A~", "A'", "E'", "E^", "I'", "O'", "C,">>
Minusculas == <<"a", "b", "c", "d", "e", "f", "g", "h", "i", "j", "k", "l", "m",
    "n", "o", "p", "q", "r", "s", "t", "u", "v", "w", "x", "y", "z",
    "a^", "a~", "a'", "e'", "e^", "i'", "o'", "c,">>

ParaMinuscula ==
    [ch \in {Maiusculas[i] : i \in 1..Len(Maiusculas)} |->
        Minusculas[CHOOSE i \in 1..Len(Maiusculas) : Maiusculas[i] = ch]]

LowerCh(ch) == IF ch \in DOMAIN ParaMinuscula THEN ParaMinuscula[ch] ELSE ch

Lower(s) == [i \in 1..Len(s) |-> LowerCh(s[i])]

\* SQLite folds case for the 26 ASCII letters only.
ParaMinusculaAscii ==
    [ch \in {Maiusculas[i] : i \in 1..26} |-> ParaMinuscula[ch]]

LowerAsciiCh(ch) ==
    IF ch \in DOMAIN ParaMinusculaAscii THEN ParaMinusculaAscii[ch] ELSE ch

\* Python's `sub in s`.
Contem(s, sub) ==
    \E i \in 0..(Len(s) - Len(sub)) : \A j \in 1..Len(sub) : s[i + j] = sub[j]

\* SQLite's `texto LIKE padrao`: "%" matches any run of characters, "_" any
\* one character, letters match ASCII-case-insensitively.
RECURSIVE LikeDe(_, _, _, _)
LikeDe(texto, i, padrao, j) ==
    IF j > Len(padrao) THEN i > Len(texto)
    ELSE IF padrao[j] = "%"
         THEN \/ j = Len(padrao)
              \/ \E k \in i..(Len(texto) + 1) : LikeDe(texto, k, padrao, j + 1)
         ELSE /\ i <= Len(texto)
              /\ \/ padrao[j] = "_"
                 \/ LowerAsciiCh(padrao[j]) = LowerAsciiCh(texto[i])
              /\ LikeDe(texto, i + 1, padrao, j + 1)

Like(texto, padrao) == LikeDe(texto, 1, padrao, 1)

RECURSIVE Concat(_)
Concat(ss) == IF ss = <<>> THEN <<>> ELSE Head(ss) \o Concat(Tail(ss))

\* SELECT DISTINCT: the rows of s without repetitions, first occurrences kept.
SemRepetidos(s) ==
    LET primeiros == {i \in 1..Len(s) : \A j \in 1..(i - 1) : s[j] # s[i]}
    IN  [k \in 1..Cardinality(primeiros) |->
            s[CHOOSE i \in primeiros :
                  Cardinality({j \in primeiros : j <= i}) = k]]

-----------------------------------------------------------------------------
(* The inputs the operations are called with.                              *)

MaxLinhas == 5      \* rows of the four input tables together

\* (nome, cargo_politico) pairs given to adicionar_pessoa
EntradasPessoa ==
    { <<JoaoSilva, PresidenteDaCamara>>, <<AnaCosta, <<>>>> }

\* (pessoa_id, cargo, entidade, data_fim) given to adicionar_cargo_politico;
\* entidade defaults to '' and data_fim to None
DataFim == <<"2", "0", "2", "3", "-", "1", "2", "-", "3", "1">>
EntradasCargo ==
    { <<1, PresidenteDaCamara, CamaraMunicipalLisboa, NULL>>,
      <<1, Vereador, CamaraMunicipalLisboa, NULL>>,
      <<1, Vereador, <<>>, NULL>>,
      <<1, PresidenteDaCamara, CamaraMunicipalLisboa, DataFim>>,
      <<2, PresidenteDaCamara, CamaraMunicipalLisboa, NULL>> }

\* (pessoa_id, empresa_nome, tipo_relacao, data_fim) given to
\* associar_pessoa_empresa
EntradasAssociacao ==
    { <<1, ConstrutoraSilva, <<"d", "o", "n", "o">>, NULL>>,
      <<1, ConsultoriaJPS, <<"s", "o", "c", "i", "o">>, NULL>>,
      <<1, ConstrutoraSilva, <<"g", "e", "r", "e", "n", "t", "e">>, DataFim>>,
      <<2, ConstrutoraSilva, <<"d", "o", "n", "o">>, NULL>> }

Data0 == <<"2", "0", "2", "3", "-", "1", "1", "-", "3", "0">>
Data1 == <<"2", "0", "2", "4", "-", "0", "1", "-", "1", "5">>
Data2 == <<"2", "0", "2", "4", "-", "0", "2", "-", "0", "1">>
Data3 == <<"2", "0", "2", "4", "-", "0", "3", "-", "0", "1">>

\* the contract dictionaries given to inserir_contrato: the two of the test
\* fixture, then one awarded by a private company under an id already used,
\* a second one awarded to the first company by a public body, and one
\* without awarder (contrato.get('adjudicante') is None)
ContratosFixture ==
    { [id_contrato |-> "ASSOC001", adjudicante |-> CamaraMunicipalLisboa,
       adjudicataria |-> ConstrutoraSilva, valor |-> <<250000>>,
       data_contrato |-> Data1],
      [id_contrato |-> "ASSOC002", adjudicante |-> JuntaFreguesiaBelem,
       adjudicataria |-> ConsultoriaJPS, valor |-> <<50000>>,
       data_contrato |-> Data2] }

EntradasContrato ==
    ContratosFixture \cup
    { [id_contrato |-> "ASSOC002", adjudicante |-> EmpresaPrivada,
       adjudicataria |-> ConstrutoraSilva, valor |-> <<50000>>,
       data_contrato |-> Data2],
      [id_contrato |-> "ASSOC003", adjudicante |-> JuntaFreguesiaBelem,
       adjudicataria |-> ConstrutoraSilva, valor |-> <<74999>>,
       data_contrato |-> Data3],
      [id_contrato |-> "ASSOC003", adjudicante |-> NULL,
       adjudicataria |-> ConstrutoraSilva, valor |-> SemValor,
       data_contrato |-> Data0] }

\* the pessoa_id arguments of detectar_conflitos_interesse: None, and the
\* ids 0..2 (0 is never the id of a stored person)
EntradasPessoaId == {SemValor, <<0>>, <<1>>, <<2>>}

-----------------------------------------------------------------------------
(* The repository: database.py and the tables of associations.py.          *)

\* retorno after a call whose return value the model does not keep
Nada == [op |-> "nenhuma"]

\* adicionar_pessoa: INSERT; on the UNIQUE(nome) violation, the stored id.
ExistePessoa(nome) == \E i \in 1..Len(pessoas) : pessoas[i].nome = nome

IdPessoa(nome) ==
    pessoas[CHOOSE i \in 1..Len(pessoas) : pessoas[i].nome = nome].id

Linhas ==
    Len(pessoas) + Len(cargos) + Len(associacoes) + Cardinality(contratos)

\* the INSERT without the UNIQUE(nome) constraint
AdicionarPessoaSemUnique(nome, cargo_politico) ==
    /\ pessoas' = Append(pessoas,
           [id |-> Len(pessoas) + 1, nome |-> nome,
            cargo_politico |-> cargo_politico])
    /\ retorno' = [op |-> "adicionar_pessoa", nome |-> nome,
                   cargo_politico |-> cargo_politico,
                   valor |-> Len(pessoas) + 1]
    /\ UNCHANGED <<cargos, associacoes, contratos, conflitos, fios, lista,
                   analise, figuras, entrada>>

AdicionarPessoa(nome, cargo_politico) ==
    /\ IF ExistePessoa(nome)
       THEN /\ pessoas' = pessoas
            /\ retorno' = [op |-> "adicionar_pessoa", nome |-> nome,
                           cargo_politico |-> cargo_politico,
                           valor |-> IdPessoa(nome)]
       ELSE /\ pessoas' = Append(pessoas,
                   [id |-> Len(pessoas) + 1, nome |-> nome,
                    cargo_politico |-> cargo_politico])
            /\ retorno' = [op |-> "adicionar_pessoa", nome |-> nome,
                           cargo_politico |-> cargo_politico,
                           valor |-> Len(pessoas) + 1]
    /\ UNCHANGED <<cargos, associacoes, contratos, conflitos, fios, lista,
                   analise, figuras, entrada>>

\* the flag that does not look at data_fim
AtivoSempre(data_fim) == 1

\* `1 if not data_fim else 0`
Ativo(data_fim) == IF data_fim = NULL \/ data_fim = <<>> THEN 1 ELSE 0

AdicionarCargoPolitico(pessoa_id, cargo, entidade, data_fim) ==
    /\ cargos' = Append(cargos,
           [pessoa_id |-> pessoa_id, cargo |-> cargo, entidade |-> entidade,
            data_fim |-> data_fim, ativo |-> Ativo(data_fim)])
    /\ retorno' = Nada
    /\ UNCHANGED <<pessoas, associacoes, contratos, conflitos, fios, lista,
                   analise, figuras, entrada>>

AssociarPessoaEmpresa(pessoa_id, empresa_nome, tipo_relacao, data_fim) ==
    /\ associacoes' = Append(associacoes,
           [pessoa_id |-> pessoa_id, empresa_nome |-> empresa_nome,
            tipo_relacao |-> tipo_relacao, data_fim |-> data_fim,
            ativo |-> Ativo(data_fim)])
    /\ retorno' = Nada
    /\ UNCHANGED <<pessoas, cargos, contratos, conflitos, fios, lista,
                   analise, figuras, entrada>>

\* inserir_contrato: False on the UNIQUE(id_contrato) violation.
InserirContrato(contrato) ==
    /\ IF \E c \in contratos : c.id_contrato = contrato.id_contrato
       THEN contratos' = contratos
       ELSE contratos' = contratos \cup {contrato}
    /\ retorno' = Nada
    /\ UNCHANGED <<pessoas, cargos, associacoes, conflitos, fios, lista,
                   analise, figuras, entrada>>

-----------------------------------------------------------------------------
(* Queries.                                                                *)

\* Text columns compare byte by byte; these are the characters of a date,
\* in ASCII order.
OrdemCh == <<"-", "/", "0", "1", "2", "3", "4", "5", "6", "7", "8", "9">>

Ord(ch) == CHOOSE i \in 1..Len(OrdemCh) : OrdemCh[i] = ch

RECURSIVE TextoMenor(_, _)
TextoMenor(a, b) ==
    IF b = <<>> THEN FALSE
    ELSE IF a = <<>> THEN TRUE
    ELSE IF Head(a) = Head(b) THEN TextoMenor(Tail(a), Tail(b))
    ELSE Ord(Head(a)) < Ord(Head(b))

\* SQL ordering of a DATE column holding text: NULL sorts below every text.
DataMenorSql(a, b) ==
    IF b = NULL THEN FALSE
    ELSE IF a = NULL THEN TRUE
    ELSE TextoMenor(a, b)

\* ORDER BY data_contrato DESC (the order of equal dates is SQLite's choice).
RECURSIVE OrdenarPorDataDesc(_)
OrdenarPorDataDesc(S) ==
    IF S = {} THEN <<>>
    ELSE CHOOSE ordenados \in
             { <<m>> \o OrdenarPorDataDesc(S \ {m}) :
                 m \in { CHOOSE c \in S : \A d \in S :
                             ~DataMenorSql(c.data_contrato,
                                           d.data_contrato) } } : TRUE

\* pesquisar_contratos({'adjudicataria': empresa}): the filter is added only
\* for a non-empty value; a NULL column never matches LIKE.
PesquisarContratosAdjudicataria(empresa) ==
    OrdenarPorDataDesc(
        IF empresa = <<>> THEN contratos
        ELSE { c \in contratos :
                 /\ c.adjudicataria # NULL
                 /\ Like(c.adjudicataria, <<"%">> \o empresa \o <<"%">>) })

\* the listing cut to its first row
ListarAssociacoesPessoaSoPrimeira(pessoa_id) ==
    LET EDaPessoa(a) == a.pessoa_id = pessoa_id
        as == SelectSeq(associacoes, EDaPessoa)
    IN  IF as = <<>> THEN <<>> ELSE <<as[1]>>

\* listar_associacoes_pessoa: ORDER BY ativo DESC, data_inicio DESC; no
\* call of the model passes data_inicio, so rows of equal ativo keep rowid
\* order.
ListarAssociacoesPessoa(pessoa_id) ==
    LET EDaPessoaAtiva(a) == a.pessoa_id = pessoa_id /\ a.ativo = 1
        EDaPessoaInativa(a) == a.pessoa_id = pessoa_id /\ a.ativo = 0
    IN  SelectSeq(associacoes, EDaPessoaAtiva)
        \o SelectSeq(associacoes, EDaPessoaInativa)

\* `if pessoa_id:` is false for None and for 0.
Verdadeiro(pessoa_id) == pessoa_id # SemValor /\ pessoa_id[1] # 0

\* SELECT DISTINCT p.*, c.cargo, c.entidade FROM pessoas p JOIN
\* cargos_politicos c ON p.id = c.pessoa_id WHERE [p.id = ? AND] c.ativo = 1
PessoasPoliticas(pessoa_id) ==
    LET DaPessoa(p) ==
            LET Serve(c) == c.pessoa_id = p.id /\ c.ativo = 1
                cs == SelectSeq(cargos, Serve)
            IN  [i \in 1..Len(cs) |->
                    [id |-> p.id, nome |-> p.nome,
                     cargo_politico |-> p.cargo_politico,
                     cargo |-> cs[i].cargo, entidade |-> cs[i].entidade]]
        Filtro(p) == Verdadeiro(pessoa_id) => p.id = pessoa_id[1]
        ps == SelectSeq(pessoas, Filtro)
    IN  SemRepetidos(Concat([i \in 1..Len(ps) |-> DaPessoa(ps[i])]))

\* ORDER BY nome compares the names byte by byte (UTF-8); these are the
\* characters of the names, in that order.
OrdemLetras ==
    <<" ", "&", "A", "B", "C", "D", "E", "F", "G", "H", "I", "J", "K", "L",
      "M", "N", "O", "P", "Q", "R", "S", "T", "U", "V", "W", "X", "Y", "Z",
      "a", "b", "c", "d", "e", "f", "g", "h", "i", "j", "k", "l", "m", "n",
      "o", "p", "q", "r", "s", "t", "u", "v", "w", "x", "y", "z",
      "A'", "A^", "A~", "C,", "E'", "E^", "I'", "O'", "U'",
      "a'", "a^", "a~", "c,", "e'", "e^", "i'", "o'", "u'">>

OrdLetra(ch) == CHOOSE i \in 1..Len(OrdemLetras) : OrdemLetras[i] = ch

RECURSIVE NomeMenor(_, _)
NomeMenor(a, b) ==
    IF b = <<>> THEN FALSE
    ELSE IF a = <<>> THEN TRUE
    ELSE IF Head(a) = Head(b) THEN NomeMenor(Tail(a), Tail(b))
    ELSE OrdLetra(Head(a)) < OrdLetra(Head(b))

\* pesquisar_pessoa: WHERE nome LIKE '%nome%' ORDER BY nome (nome is UNIQUE)
PesquisarPessoa(nome) ==
    LET achadas == {i \in 1..Len(pessoas) :
                       Like(pessoas[i].nome, <<"%">> \o nome \o <<"%">>)}
        Posicao(i) ==
            Cardinality({j \in achadas :
                            NomeMenor(pessoas[j].nome, pessoas[i].nome)}) + 1
    IN  [k \in 1..Cardinality(achadas) |->
            pessoas[CHOOSE i \in achadas : Posicao(i) = k]]

\* pesquisar_contratos({'adjudicante': nome})
PesquisarContratosAdjudicante(nome) ==
    OrdenarPorDataDesc(
        IF nome = <<>> THEN contratos
        ELSE { c \in contratos :
                 /\ c.adjudicante # NULL
                 /\ Like(c.adjudicante, <<"%">> \o nome \o <<"%">>) })

\* the result dictionary as it is before anything is found
ResultadoDaPesquisa(nome_pessoa) ==
    [op |-> "pesquisar_contratos_por_pessoa",
     erro |-> FALSE,
     pessoa |-> nome_pessoa,
     contratos_diretos |-> <<>>,
     contratos_empresas |-> <<>>,
     empresas_associadas |-> <<>>,
     total_contratos |-> 0,
     valor_total |-> 0]

\* c['_empresa_associada'] = empresa; c['_tipo_associacao'] = the relation of
\* the first association of the list with that company
Anotar(cs, empresa, as) ==
    LET primeira == CHOOSE i \in 1..Len(as) :
                        /\ as[i].empresa_nome = empresa
                        /\ \A j \in 1..(i - 1) : as[j].empresa_nome # empresa
    IN  [k \in 1..Len(cs) |->
            [id_contrato |-> cs[k].id_contrato,
             adjudicante |-> cs[k].adjudicante,
             adjudicataria |-> cs[k].adjudicataria,
             valor |-> cs[k].valor,
             data_contrato |-> cs[k].data_contrato,
             empresa_associada |-> empresa,
             tipo_associacao |-> as[primeira].tipo_relacao]]

RECURSIVE SomaDosValores(_)
SomaDosValores(cs) ==
    IF cs = <<>> THEN 0 ELSE Head(cs).valor[1] + SomaDosValores(Tail(cs))

\* pesquisar_contratos_por_pessoa: the rows are dict(row), so 'valor' is
\* always a key and c.get('valor', 0) is None for a row without value, which
\* sum() cannot add: TypeError, and nothing is returned.
ContratosDaPessoa(nome_pessoa) ==
    IF PesquisarPessoa(nome_pessoa) = <<>> THEN ResultadoDaPesquisa(nome_pessoa)
    ELSE LET pessoa_id == PesquisarPessoa(nome_pessoa)[1].id
             contratos_diretos ==
                 PesquisarContratosAdjudicante(nome_pessoa)
                     \o PesquisarContratosAdjudicataria(nome_pessoa)
             as == ListarAssociacoesPessoa(pessoa_id)
             empresas == [i \in 1..Len(as) |-> as[i].empresa_nome]
             contratos_empresas ==
                 Concat([i \in 1..Len(empresas) |->
                            Anotar(PesquisarContratosAdjudicataria(empresas[i]),
                                   empresas[i], as)])
             todos_contratos == contratos_diretos \o contratos_empresas
         IN  IF \E i \in 1..Len(todos_contratos) :
                    todos_contratos[i].valor = SemValor
             THEN [op |-> "pesquisar_contratos_por_pessoa", erro |-> TRUE,
                   pessoa |-> nome_pessoa]
             ELSE [ResultadoDaPesquisa(nome_pessoa) EXCEPT
                      !.contratos_diretos = contratos_diretos,
                      !.contratos_empresas = contratos_empresas,
                      !.empresas_associadas = empresas,
                      !.total_contratos = Len(todos_contratos),
                      !.valor_total = SomaDosValores(todos_contratos)]

PesquisarContratosPorPessoa(nome_pessoa) ==
    /\ \E r \in {ContratosDaPessoa(nome_pessoa)} : retorno' = r
    /\ UNCHANGED <<pessoas, cargos, associacoes, contratos, conflitos, fios,
                   lista, analise, figuras, entrada>>

-----------------------------------------------------------------------------
(* detectar_conflitos_interesse.                                           *)

EntidadesPublicas ==
    << <<"c", "a^", "m", "a", "r", "a">>,
       <<"j", "u", "n", "t", "a">>,
       <<"a", "s", "s", "e", "m", "b", "l", "e", "i", "a">>,
       <<"g", "o", "v", "e", "r", "n", "o">>,
       <<"m", "i", "n", "i", "s", "t", "e'", "r", "i", "o">>,
       <<"i", "n", "s", "t", "i", "t", "u", "t", "o">>,
       <<"a", "g", "e^", "n", "c", "i", "a">>,
       <<"a", "u", "t", "a", "r", "q", "u", "i", "a">>,
       <<"m", "u", "n", "i", "c", "i'", "p", "i", "o">>,
       <<"f", "r", "e", "g", "u", "e", "s", "i", "a">> >>

CargosAltos ==
    << <<"m", "i", "n", "i", "s", "t", "r", "o">>,
       <<"s", "e", "c", "r", "e", "t", "a'", "r", "i", "o">>,
       <<"p", "r", "e", "s", "i", "d", "e", "n", "t", "e">>,
       <<"d", "e", "p", "u", "t", "a", "d", "o">> >>

\* any(kw in adjudicante for kw in entidades_publicas), adjudicante lowered
EhEntidadePublicaSoCamara(adjudicante) ==
    Contem(adjudicante, EntidadesPublicas[1])

EhEntidadePublica(adjudicante) ==
    \E i \in 1..Len(EntidadesPublicas) :
        Contem(adjudicante, EntidadesPublicas[i])

\* gravidade: 'media', then 'alta' for a high office, then 'critica' when the
\* office's entity occurs in the (lowered) awarder; each assignment
\* overrides the one before.
GravidadeAltaPorUltimo(cargo, entidade, adjudicante) ==
    LET g0 == "media"
        g1 == IF Contem(adjudicante, Lower(entidade)) THEN "critica" ELSE g0
        g2 == IF \E i \in 1..Len(CargosAltos) :
                     Contem(Lower(cargo), CargosAltos[i])
              THEN "alta" ELSE g1
    IN  g2

Gravidade(cargo, entidade, adjudicante) ==
    LET g0 == "media"
        g1 == IF \E i \in 1..Len(CargosAltos) :
                     Contem(Lower(cargo), CargosAltos[i])
              THEN "alta" ELSE g0
        g2 == IF Contem(adjudicante, Lower(entidade)) THEN "critica" ELSE g1
    IN  g2

Txt_abre == <<" ", "(">>
Txt_tem == <<")", " ", "t", "e", "m", " ">>
Txt_em == <<" ", "e", "m", " ">>
Txt_contrato == <<",", " ", "q", "u", "e", " ", "t", "e", "m", " ", "c", "o",
    "n", "t", "r", "a", "t", "o", " ", "c", "o", "m", " ">>

\* the conflito dictionary built for a (pessoa, assoc, contrato) of the loop
Conflito(pessoa, assoc, contrato) ==
    [tipo |-> "cargo_politico_empresa_contratos",
     pessoa_id |-> pessoa.id,
     pessoa_nome |-> pessoa.nome,
     cargo |-> pessoa.cargo,
     empresa |-> assoc.empresa_nome,
     id_contrato |-> contrato.id_contrato,
     adjudicante |-> contrato.adjudicante,
     valor |-> contrato.valor,
     gravidade |-> Gravidade(pessoa.cargo, pessoa.entidade,
                             Lower(contrato.adjudicante)),
     descricao |-> pessoa.nome \o Txt_abre \o pessoa.cargo \o Txt_tem
                   \o assoc.tipo_relacao \o Txt_em \o assoc.empresa_nome
                   \o Txt_contrato \o contrato.adjudicante]

\* _registar_conflito, the check: SELECT id ... WHERE pessoa_id = ? AND
\* id_contrato = ?
ExisteConflito(tabela, conflito) ==
    \E i \in 1..Len(tabela) :
        /\ tabela[i].pessoa_id = conflito.pessoa_id
        /\ tabela[i].id_contrato = conflito.id_contrato

\* _registar_conflito, the INSERT (verificado defaults to 0)
InserirConflito(tabela, conflito) ==
    Append(tabela,
        [id |-> Len(tabela) + 1,
         pessoa_id |-> conflito.pessoa_id,
         empresa_nome |-> conflito.empresa,
         id_contrato |-> conflito.id_contrato,
         tipo_conflito |-> conflito.tipo,
         descricao |-> conflito.descricao,
         gravidade |-> conflito.gravidade,
         verificado |-> 0])

RegistarConflitoSemVerificar(tabela, conflito) ==
    InserirConflito(tabela, conflito)

\* an upsert: the stored row of the pair takes the recomputed values
RegistarConflitoSubstitui(tabela, conflito) ==
    IF ExisteConflito(tabela, conflito)
    THEN [i \in 1..Len(tabela) |->
             IF /\ tabela[i].pessoa_id = conflito.pessoa_id
                /\ tabela[i].id_contrato = conflito.id_contrato
             THEN [tabela[i] EXCEPT !.gravidade = conflito.gravidade,
                                    !.descricao = conflito.descricao]
             ELSE tabela[i]]
    ELSE InserirConflito(tabela, conflito)

RegistarConflito(tabela, conflito) ==
    IF ExisteConflito(tabela, conflito) THEN tabela
    ELSE InserirConflito(tabela, conflito)

\* The (pessoa, assoc, contrato) triples in the order the three nested loops
\* visit them; inactive associations are skipped.
Iteracoes(pessoa_id) ==
    LET pp == PessoasPoliticas(pessoa_id)
        DoPar(pessoa, assoc) ==
            LET cs == PesquisarContratosAdjudicataria(assoc.empresa_nome)
            IN  [k \in 1..Len(cs) |->
                    [pessoa |-> pessoa, assoc |-> assoc, contrato |-> cs[k]]]
        DaPessoa(pessoa) ==
            LET Activa(a) == a.ativo # 0
                as == SelectSeq(ListarAssociacoesPessoa(pessoa.id), Activa)
            IN  Concat([j \in 1..Len(as) |-> DoPar(pessoa, as[j])])
    IN  Concat([i \in 1..Len(pp) |-> DaPessoa(pp[i])])

\* What the loop body does with a triple: None.lower() raises for a contract
\* without awarder or a position without entity; a public awarder gives a
\* conflito.
Raises(it) == it.contrato.adjudicante = NULL

RaisesNaGravidade(it) == it.pessoa.entidade = NULL

EConflito(it) ==
    /\ ~Raises(it)
    /\ EhEntidadePublica(Lower(it.contrato.adjudicante))

\* One pass of the loop body over the state of the call: the list to return,
\* the conflitos table and whether the call has raised.
PassoSoNovos(acc, it) ==
    IF acc.erro THEN acc
    ELSE IF Raises(it) THEN [acc EXCEPT !.erro = TRUE]
    ELSE IF ~EConflito(it) THEN acc
    ELSE IF RaisesNaGravidade(it) THEN [acc EXCEPT !.erro = TRUE]
    ELSE LET conflito == Conflito(it.pessoa, it.assoc, it.contrato)
         IN  [conflitos |-> IF ExisteConflito(acc.tabela, conflito)
                            THEN acc.conflitos
                            ELSE Append(acc.conflitos, conflito),
              tabela |-> RegistarConflito(acc.tabela, conflito),
              erro |-> FALSE]

Passo(acc, it) ==
    IF acc.erro THEN acc
    ELSE IF Raises(it) THEN [acc EXCEPT !.erro = TRUE]
    ELSE IF ~EConflito(it) THEN acc
    ELSE IF RaisesNaGravidade(it) THEN [acc EXCEPT !.erro = TRUE]
    ELSE LET conflito == Conflito(it.pessoa, it.assoc, it.contrato)
         IN  [conflitos |-> Append(acc.conflitos, conflito),
              tabela |-> RegistarConflito(acc.tabela, conflito),
              erro |-> FALSE]

RECURSIVE Percorrer(_, _)
Percorrer(acc, its) ==
    IF its = <<>> THEN acc ELSE Percorrer(Passo(acc, Head(its)), Tail(its))

\* History: the call before this one was the same call, so nothing changed
\* in between.
Repetida(pessoa_id) ==
    /\ retorno.op = "detectar_conflitos_interesse"
    /\ retorno.pessoa_id = pessoa_id

DetectarConflitosInteresse(pessoa_id) ==
    LET fim == Percorrer([conflitos |-> <<>>, tabela |-> conflitos,
                          erro |-> FALSE], Iteracoes(pessoa_id))
    IN  /\ conflitos' = fim.tabela
        /\ retorno' = [op |-> "detectar_conflitos_interesse",
                       pessoa_id |-> pessoa_id,
                       erro |-> fim.erro,
                       valor |-> IF fim.erro THEN <<>> ELSE fim.conflitos,
                       repetida |-> Repetida(pessoa_id)]
        /\ UNCHANGED <<pessoas, cargos, associacoes, contratos, fios, lista,
                       analise, figuras, entrada>>

-----------------------------------------------------------------------------
(* The repository driven by one caller at a time.                          *)

Init ==
    /\ pessoas = <<>>
    /\ cargos = <<>>
    /\ associacoes = <<>>
    /\ contratos = {}
    /\ conflitos = <<>>
    /\ retorno = Nada
    /\ fios = <<>>
    /\ lista = <<>>
    /\ analise = Nada
    /\ figuras = <<>>
    /\ entrada = Nada

Next ==
    \/ \E e \in EntradasPessoa :
           /\ Linhas < MaxLinhas
           /\ AdicionarPessoa(e[1], e[2])
    \/ \E e \in EntradasCargo :
           /\ Linhas < MaxLinhas
           /\ e[1] <= Len(pessoas)
           /\ AdicionarCargoPolitico(e[1], e[2], e[3], e[4])
    \/ \E e \in EntradasAssociacao :
           /\ Linhas < MaxLinhas
           /\ e[1] <= Len(pessoas)
           /\ AssociarPessoaEmpresa(e[1], e[2], e[3], e[4])
    \/ \E c \in EntradasContrato :
           /\ Linhas < MaxLinhas
           /\ InserirContrato(c)
    \/ \E p \in EntradasPessoaId : DetectarConflitosInteresse(p)

Spec == Init /\ [][Next]_vars

-----------------------------------------------------------------------------
(* The scenario of test_associations: the same calls, with the values of   *)
(* the test.                                                               *)

MaxLinhasFixture == 6

PessoaFixture == <<JoaoSilva, PresidenteDaCamara>>
CargoFixture == <<1, PresidenteDaCamara, CamaraMunicipalLisboa, NULL>>
AssociacoesFixture ==
    { <<1, ConstrutoraSilva, <<"d", "o", "n", "o">>, NULL>>,
      <<1, ConsultoriaJPS, <<"s", "o", "c", "i", "o">>, NULL>> }

NextFixture ==
    \/ /\ Linhas < MaxLinhasFixture
       /\ AdicionarPessoa(PessoaFixture[1], PessoaFixture[2])
    \/ /\ Linhas < MaxLinhasFixture
       /\ CargoFixture[1] <= Len(pessoas)
       /\ AdicionarCargoPolitico(CargoFixture[1], CargoFixture[2],
                                 CargoFixture[3], CargoFixture[4])
    \/ \E e \in AssociacoesFixture :
           /\ Linhas < MaxLinhasFixture
           /\ e[1] <= Len(pessoas)
           /\ AssociarPessoaEmpresa(e[1], e[2], e[3], e[4])
    \/ \E c \in ContratosFixture :
           /\ Linhas < MaxLinhasFixture
           /\ InserirContrato(c)
    \/ \E p \in {SemValor, <<1>>} : DetectarConflitosInteresse(p)
    \/ PesquisarContratosPorPessoa(JoaoSilva)

SpecFixture == Init /\ [][NextFixture]_vars

-----------------------------------------------------------------------------
(* The searches by person: a few persons, companies and contracts, one of  *)
(* them naming a person, one stored without value.                         *)

MaxLinhasPesquisa == 4

Silva == <<"S", "i", "l", "v", "a">>

PessoasPesquisa ==
    { <<JoaoSilva, PresidenteDaCamara>>, <<JoaoSilva, Vereador>>,
      <<AnaCosta, <<>>>> }

CargosPesquisa ==
    { CargoFixture,
      <<1, Vereador, CamaraMunicipalLisboa, DataFim>>,
      <<1, Vereador, CamaraMunicipalLisboa, <<>>>> }

AssociacoesPesquisa ==
    { <<1, ConstrutoraSilva, <<"d", "o", "n", "o">>, NULL>>,
      <<1, ConstrutoraSilva, <<"g", "e", "r", "e", "n", "t", "e">>, DataFim>>,
      <<1, ConstrutoraSilva, <<"s", "o", "c", "i", "o">>, <<>>>>,
      <<1, ConsultoriaJPS, <<"s", "o", "c", "i", "o">>, NULL>> }

ContratosPesquisa ==
    { [id_contrato |-> "ASSOC001", adjudicante |-> CamaraMunicipalLisboa,
       adjudicataria |-> ConstrutoraSilva, valor |-> <<250000>>,
       data_contrato |-> Data1],
      [id_contrato |-> "ASSOC003", adjudicante |-> NULL,
       adjudicataria |-> ConstrutoraSilva, valor |-> SemValor,
       data_contrato |-> Data0],
      [id_contrato |-> "DIR001", adjudicante |-> CamaraMunicipalLisboa,
       adjudicataria |-> AnaCosta, valor |-> <<1000>>,
       data_contrato |-> Data2] }

NomesPesquisa == {JoaoSilva, AnaCosta, Silva}

NextPesquisa ==
    \/ \E e \in PessoasPesquisa :
           /\ Linhas < MaxLinhasPesquisa
           /\ AdicionarPessoa(e[1], e[2])
    \/ \E e \in CargosPesquisa :
           /\ Linhas < MaxLinhasPesquisa
           /\ e[1] <= Len(pessoas)
           /\ AdicionarCargoPolitico(e[1], e[2], e[3], e[4])
    \/ \E e \in AssociacoesPesquisa :
           /\ Linhas < MaxLinhasPesquisa
           /\ e[1] <= Len(pessoas)
           /\ AssociarPessoaEmpresa(e[1], e[2], e[3], e[4])
    \/ \E c \in ContratosPesquisa :
           /\ Linhas < MaxLinhasPesquisa
           /\ InserirContrato(c)
    \/ \E n \in NomesPesquisa : PesquisarContratosPorPessoa(n)
    \/ \E p \in EntradasPessoaId : DetectarConflitosInteresse(p)

SpecPesquisa == Init /\ [][NextPesquisa]_vars

-----------------------------------------------------------------------------
(* Several callers on one connection (check_same_thread=False): each       *)
(* statement is atomic, and other callers' statements run between the      *)
(* SELECT and the INSERT of _registar_conflito.                            *)

NFios == 2          \* callers
MaxChamadas == 2    \* calls of each caller

Parado == [pc |-> "parado", pendentes |-> <<>>, existe |-> FALSE, chamadas |-> 0]

\* the conflicts a call meets, in the order of the loop (the input tables
\* do not change while the callers run)
ConflitosDaChamada(pessoa_id) ==
    Percorrer([conflitos |-> <<>>, tabela |-> <<>>, erro |-> FALSE],
              Iteracoes(pessoa_id)).conflitos

\* detectar_conflitos_interesse up to its first conflict
Chamar(t, pessoa_id) ==
    /\ fios[t].pc = "parado"
    /\ fios[t].chamadas < MaxChamadas
    /\ LET cs == ConflitosDaChamada(pessoa_id)
       IN  fios' = [fios EXCEPT ![t] =
                       [pc |-> IF cs = <<>> THEN "fim" ELSE "verificar",
                        pendentes |-> cs,
                        existe |-> FALSE,
                        chamadas |-> fios[t].chamadas + 1]]
    /\ UNCHANGED <<pessoas, cargos, associacoes, contratos, conflitos,
                   retorno, lista, analise, figuras,
                   entrada>>

\* _registar_conflito: the SELECT and fetchone()
Verificar(t) ==
    /\ fios[t].pc = "verificar"
    /\ fios' = [fios EXCEPT ![t].pc = "inserir",
                            ![t].existe =
                                ExisteConflito(conflitos,
                                               Head(fios[t].pendentes))]
    /\ UNCHANGED <<pessoas, cargos, associacoes, contratos, conflitos,
                   retorno, lista, analise, figuras,
                   entrada>>

\* _registar_conflito: the INSERT when the SELECT found no row, the commit,
\* and the loop's move to the next conflict
Inserir(t) ==
    /\ fios[t].pc = "inserir"
    /\ conflitos' = IF fios[t].existe THEN conflitos
                    ELSE InserirConflito(conflitos, Head(fios[t].pendentes))
    /\ fios' = [fios EXCEPT ![t].pc = IF Len(fios[t].pendentes) = 1
                                      THEN "fim" ELSE "verificar",
                            ![t].pendentes = Tail(fios[t].pendentes)]
    /\ UNCHANGED <<pessoas, cargos, associacoes, contratos, retorno, lista,
                   analise, figuras, entrada>>

\* return conflitos
Devolver(t) ==
    /\ fios[t].pc = "fim"
    /\ fios' = [fios EXCEPT ![t].pc = "parado"]
    /\ UNCHANGED <<pessoas, cargos, associacoes, contratos, conflitos,
                   retorno, lista, analise, figuras,
                   entrada>>

\* The rows of test_associations, with or without a third contract, before
\* any detection.
InitCorrida ==
    /\ pessoas = <<[id |-> 1, nome |-> JoaoSilva,
                    cargo_politico |-> PresidenteDaCamara]>>
    /\ cargos = <<[pessoa_id |-> 1, cargo |-> PresidenteDaCamara,
                   entidade |-> CamaraMunicipalLisboa, data_fim |-> NULL,
                   ativo |-> Ativo(NULL)]>>
    /\ associacoes =
           <<[pessoa_id |-> 1, empresa_nome |-> ConstrutoraSilva,
              tipo_relacao |-> <<"d", "o", "n", "o">>, data_fim |-> NULL,
              ativo |-> Ativo(NULL)],
             [pessoa_id |-> 1, empresa_nome |-> ConsultoriaJPS,
              tipo_relacao |-> <<"s", "o", "c", "i", "o">>,
              data_fim |-> NULL, ativo |-> Ativo(NULL)]>>
    /\ contratos \in
           { ContratosFixture,
             { c \in EntradasContrato : c.adjudicante = CamaraMunicipalLisboa } }
    /\ conflitos = <<>>
    /\ retorno = Nada
    /\ fios = [t \in 1..NFios |-> Parado]
    /\ lista = <<>>
    /\ analise = Nada
    /\ figuras = <<>>
    /\ entrada = Nada

NextCorrida ==
    \E t \in 1..NFios :
        \/ \E p \in {SemValor, <<1>>} : Chamar(t, p)
        \/ Verificar(t)
        \/ Inserir(t)
        \/ Devolver(t)

SpecCorrida == InitCorrida /\ [][NextCorrida]_vars

-----------------------------------------------------------------------------
(* suspicious_patterns.py: a contract is a dictionary, here a function     *)
(* whose domain is the set of its keys; a key that is present holds a      *)
(* value or None (NULL for text, SemValor for a number).                   *)

\* dict.get(chave, omissao)
Get(d, chave, omissao) == IF chave \in DOMAIN d THEN d[chave] ELSE omissao

\* the truth value of a text (None and '' are false)
TextoVerdadeiro(s) == s # NULL /\ s # <<>>

\* LimitesLegais
AJUSTE_DIRETO_BENS_SERVICOS == 75000
AJUSTE_DIRETO_OBRAS == 150000
CONSULTA_PREVIA_BENS_SERVICOS == 214000
CONSULTA_PREVIA_OBRAS == 548000
UE_BENS_SERVICOS == 140000
UE_OBRAS == 5382000

Txt_obra == <<"o", "b", "r", "a">>
Txt_empreitada == <<"e", "m", "p", "r", "e", "i", "t", "a", "d", "a">>
Txt_ajuste == <<"a", "j", "u", "s", "t", "e">>
Txt_consulta == <<"c", "o", "n", "s", "u", "l", "t", "a">>

EhObra(tipo_contrato) ==
    \/ Contem(Lower(tipo_contrato), Txt_obra)
    \/ Contem(Lower(tipo_contrato), Txt_empreitada)

get_limite_ajuste_direto_SoBens(tipo_contrato) == AJUSTE_DIRETO_BENS_SERVICOS

get_limite_ajuste_direto(tipo_contrato) ==
    IF EhObra(tipo_contrato) THEN AJUSTE_DIRETO_OBRAS
    ELSE AJUSTE_DIRETO_BENS_SERVICOS

\* the lookup that knows 'obra' only
get_limite_consulta_previa_SoObra(tipo_contrato) ==
    IF Contem(Lower(tipo_contrato), Txt_obra) THEN CONSULTA_PREVIA_OBRAS
    ELSE CONSULTA_PREVIA_BENS_SERVICOS

get_limite_consulta_previa(tipo_contrato) ==
    IF EhObra(tipo_contrato) THEN CONSULTA_PREVIA_OBRAS
    ELSE CONSULTA_PREVIA_BENS_SERVICOS

\* _get_default_config
margem_suspeita_percentagem == 5
margem_alta_suspeita_percentagem == 1
janela_fracionamento_dias == 365
min_contratos_fracionamento == 3
min_contratos_repetidos == 5
janela_concentracao_dias == 30
min_contratos_concentracao == 10
valores_redondos_suspeitos ==
    {74900, 74950, 74990, 74999, 149900, 149950, 149990, 149999,
     213900, 213950, 213990, 213999}

\* What a rule, or a pass of its loop, gives: its findings, or that it
\* raised.
SemPadroes == [erro |-> FALSE, padroes |-> <<>>]
Levantou == [erro |-> TRUE, padroes |-> <<>>]
\* the findings with 'alta' written as the top of the conflicts' scale
PadroesCriticos(ps) ==
    [erro |-> FALSE,
     padroes |-> [i \in 1..Len(ps) |->
                     IF ps[i].gravidade = "alta"
                     THEN [ps[i] EXCEPT !.gravidade = "critica"]
                     ELSE ps[i]]]

Padroes(ps) == [erro |-> FALSE, padroes |-> ps]

\* The passes of a loop, one after the other: a raise ends the loop and the
\* findings are lost with it.
Juntar(rs) ==
    IF \E i \in 1..Len(rs) : rs[i].erro THEN Levantou
    ELSE Padroes(Concat([i \in 1..Len(rs) |-> rs[i].padroes]))

\* ---- datetime.strptime(s, '%Y-%m-%d') -----------------------------------

Digitos == <<"0", "1", "2", "3", "4", "5", "6", "7", "8", "9">>

EDigito(ch) == \E i \in 1..10 : Digitos[i] = ch

ValorDigito(ch) == (CHOOSE i \in 1..10 : Digitos[i] = ch) - 1

RECURSIVE Numero(_)
Numero(s) ==
    IF s = <<>> THEN 0
    ELSE 10 * Numero(SubSeq(s, 1, Len(s) - 1)) + ValorDigito(s[Len(s)])

Bissexto(ano) == (ano % 4 = 0 /\ ano % 100 # 0) \/ ano % 400 = 0

DiasDoMes(ano, mes) ==
    IF mes = 2 THEN (IF Bissexto(ano) THEN 29 ELSE 28)
    ELSE IF mes \in {4, 6, 9, 11} THEN 30 ELSE 31

\* [ok |-> FALSE] stands for the ValueError of strptime: the text is not
\* four digits, '-', a month of one or two digits and '-', a day of one or
\* two digits (or a space and a digit), or it is not a date of the
\* calendar.
Strptime(s) ==
    LET tracos == {i \in 1..Len(s) : s[i] = "-"}
    IN  IF Cardinality(tracos) # 2 THEN [ok |-> FALSE]
        ELSE LET t1 == CHOOSE i \in tracos : \A j \in tracos : i <= j
                 t2 == CHOOSE i \in tracos : \A j \in tracos : j <= i
                 a == SubSeq(s, 1, t1 - 1)
                 m == SubSeq(s, t1 + 1, t2 - 1)
                 d == SubSeq(s, t2 + 1, Len(s))
                 \* the day may be written ' 5'
                 dd == IF Len(d) = 2 /\ d[1] = " " THEN Tail(d) ELSE d
                 SoDigitos(x) == \A i \in 1..Len(x) : EDigito(x[i])
             IN  IF /\ Len(a) = 4 /\ SoDigitos(a)
                    /\ Len(m) \in {1, 2} /\ SoDigitos(m)
                    /\ Len(dd) \in {1, 2} /\ SoDigitos(dd)
                    /\ Numero(a) >= 1
                    /\ Numero(m) \in 1..12
                    /\ Numero(dd) >= 1
                    /\ Numero(dd) <= DiasDoMes(Numero(a), Numero(m))
                 THEN [ok |-> TRUE, ano |-> Numero(a), mes |-> Numero(m),
                       dia |-> Numero(dd)]
                 ELSE [ok |-> FALSE]

RECURSIVE DiasAntesDoMes(_, _)
DiasAntesDoMes(ano, mes) ==
    IF mes = 1 THEN 0
    ELSE DiasAntesDoMes(ano, mes - 1) + DiasDoMes(ano, mes - 1)

\* date.toordinal(): days since 0001-01-01, which is day 1
Ordinal(dt) ==
    LET a == dt.ano - 1
    IN  a * 365 + (a \div 4) - (a \div 100) + (a \div 400)
        + DiasAntesDoMes(dt.ano, dt.mes) + dt.dia

\* date.weekday(): Monday is 0
Weekday(dt) == (Ordinal(dt) + 6) % 7

\* ---- rule 1: _detectar_valores_suspeitos --------------------------------

\* the body of the loop for one contract
ValorSuspeito(contrato) ==
    LET valor == Get(contrato, "valor", <<0>>)
        tipo == Get(contrato, "tipo_contrato", <<>>)
        proc == Get(contrato, "tipo_procedimento", <<>>)
    IN  IF proc = NULL THEN Levantou              \* None.lower()
        ELSE IF valor = SemValor THEN Levantou    \* None <= 0
        ELSE IF valor[1] <= 0 THEN SemPadroes
        ELSE IF tipo = NULL THEN Levantou         \* None.lower()
        ELSE
          LET procedimento == Lower(proc)
              limite_ajuste == get_limite_ajuste_direto(tipo)
              margem_normal ==
                  (limite_ajuste * margem_suspeita_percentagem) \div 100
              margem_alta ==
                  (limite_ajuste * margem_alta_suspeita_percentagem) \div 100
              distancia == limite_ajuste - valor[1]
          IN  IF /\ limite_ajuste - margem_normal <= valor[1]
                 /\ valor[1] <= limite_ajuste
              THEN Padroes(<<
                       [tipo |-> "valor_suspeito_limite",
                        subtipo |-> "ajuste_direto",
                        gravidade |->
                            IF Contem(procedimento, Txt_ajuste) THEN "alta"
                            ELSE IF distancia <= margem_alta THEN "alta"
                            ELSE "media",
                        id_contrato |-> Get(contrato, "id_contrato", NULL),
                        valor |-> valor[1],
                        limite |-> limite_ajuste,
                        distancia |-> distancia,
                        procedimento |-> procedimento]>>)
              ELSE SemPadroes

DetectarValoresSuspeitos(cs) ==
    Juntar([i \in 1..Len(cs) |-> ValorSuspeito(cs[i])])

\* ---- grouping and ordering, as defaultdict(list) and list.sort do -------

\* the contracts of cs under each key, keys in the order of first occurrence;
\* chave_de[i] is the key of cs[i]
Agrupar(cs, chave_de) ==
    LET chaves == SemRepetidos(chave_de)
    IN  [k \in 1..Len(chaves) |->
            LET indices == {i \in 1..Len(cs) : chave_de[i] = chaves[k]}
            IN  [n \in 1..Cardinality(indices) |->
                    cs[CHOOSE i \in indices :
                          Cardinality({j \in indices : j <= i}) = n]]]

\* the key of both sorts: the text of data_contrato, '' when the key is
\* absent
ChaveData(c) == Get(c, "data_contrato", <<>>)

\* list.sort(key=ChaveData): stable, so a contract goes after those of a
\* smaller key and after the earlier ones of an equal key
OrdenarPorData(cs) ==
    LET Antes(j, i) ==
            \/ TextoMenor(ChaveData(cs[j]), ChaveData(cs[i]))
            \/ ChaveData(cs[j]) = ChaveData(cs[i]) /\ j < i
        Posicao(i) == Cardinality({j \in 1..Len(cs) : Antes(j, i)}) + 1
    IN  [k \in 1..Len(cs) |-> cs[CHOOSE i \in 1..Len(cs) : Posicao(i) = k]]

\* sum(c.get('valor', 0) for c in cs); a None among them raises
TemSemValor(cs) ==
    \E i \in 1..Len(cs) : Get(cs[i], "valor", <<0>>) = SemValor

RECURSIVE Soma(_)
Soma(cs) ==
    IF cs = <<>> THEN 0
    ELSE Get(Head(cs), "valor", <<0>>)[1] + Soma(Tail(cs))

DataContrato(c) == Get(c, "data_contrato", NULL)

TemData(c) == TextoVerdadeiro(DataContrato(c))

\* the contracts of cs with a date, all of which parse, that are not after
\* ordinal day fim; and whether one of those dates does not parse
DataMalformada(cs) ==
    \E i \in 1..Len(cs) : TemData(cs[i]) /\ ~Strptime(DataContrato(cs[i])).ok

NaJanela(cs, fim) ==
    LET Dentro(c) == TemData(c) /\ Ordinal(Strptime(DataContrato(c))) <= fim
    IN  SelectSeq(cs, Dentro)

\* ---- rule 2: _detectar_fracionamento ------------------------------------

ParFracionamento(c) ==
    <<Get(c, "adjudicante", <<>>), Get(c, "adjudicataria", <<>>),
      Get(c, "tipo_contrato", <<>>),
      LET objeto == Get(c, "objeto_contrato", <<>>)
      IN  SubSeq(objeto, 1, IF Len(objeto) < 50 THEN Len(objeto) ELSE 50)>>

\* the loop over the sorted contracts of one pair, from position i on; the
\* result is the finding, nothing, or the raise
RECURSIVE JanelaFracionamento(_, _)
JanelaFracionamento(contratos_par, i) ==
    IF i > Len(contratos_par) THEN SemPadroes
    ELSE IF ~TemData(contratos_par[i])
         THEN JanelaFracionamento(contratos_par, i + 1)
    ELSE IF ~Strptime(DataContrato(contratos_par[i])).ok THEN Levantou
    ELSE LET resto == SubSeq(contratos_par, i, Len(contratos_par))
             dt_fim == Ordinal(Strptime(DataContrato(contratos_par[i])))
                           + janela_fracionamento_dias
         IN  IF DataMalformada(resto) THEN Levantou
             ELSE LET contratos_janela == NaJanela(resto, dt_fim)
                  IN  IF Len(contratos_janela) < min_contratos_fracionamento
                      THEN JanelaFracionamento(contratos_par, i + 1)
                      ELSE IF TemSemValor(contratos_janela) THEN Levantou
                      ELSE IF Get(contratos_janela[1], "tipo_contrato", <<>>)
                                  = NULL
                           THEN Levantou
                      ELSE IF Soma(contratos_janela) >
                                  get_limite_ajuste_direto(
                                      Get(contratos_janela[1],
                                          "tipo_contrato", <<>>))
                           THEN Padroes(<<
                                   [tipo |-> "fracionamento_suspeito",
                                    gravidade |-> "alta",
                                    adjudicante |->
                                        ParFracionamento(contratos_par[1])[1],
                                    adjudicataria |->
                                        ParFracionamento(contratos_par[1])[2],
                                    num_contratos |-> Len(contratos_janela),
                                    valor_total |-> Soma(contratos_janela),
                                    periodo_dias |-> janela_fracionamento_dias,
                                    contratos_ids |->
                                        [k \in 1..Len(contratos_janela) |->
                                            Get(contratos_janela[k],
                                                "id_contrato", NULL)]]>>)
                           ELSE JanelaFracionamento(contratos_par, i + 1)

FracionamentoDoPar(contratos_par) ==
    IF Len(contratos_par) < min_contratos_fracionamento THEN SemPadroes
    ELSE IF \E i \in 1..Len(contratos_par) : ChaveData(contratos_par[i]) = NULL
         THEN Levantou                 \* sort compares None
    ELSE JanelaFracionamento(OrdenarPorData(contratos_par), 1)

DetectarFracionamento(cs) ==
    IF \E i \in 1..Len(cs) : Get(cs[i], "objeto_contrato", <<>>) = NULL
    THEN Levantou                      \* None[:50]
    ELSE LET grupos == Agrupar(cs, [i \in 1..Len(cs) |-> ParFracionamento(cs[i])])
         IN  Juntar([k \in 1..Len(grupos) |-> FracionamentoDoPar(grupos[k])])

\* ---- rule 3: _detectar_contratos_repetidos ------------------------------

ParRepetidos(c) ==
    <<Get(c, "adjudicante", <<>>), Get(c, "adjudicataria", <<>>)>>

\* the rule with the threshold one contract too low
RepetidosDoParDesdeQuatro(contratos_par) ==
    IF Len(contratos_par) < min_contratos_repetidos - 1 THEN SemPadroes
    ELSE IF TemSemValor(contratos_par) THEN Levantou
    ELSE Padroes(<<[tipo |-> "contratos_repetidos",
                    gravidade |-> "media",
                    num_contratos |-> Len(contratos_par),
                    valor_total |-> Soma(contratos_par)]>>)

RepetidosDoPar(contratos_par) ==
    IF Len(contratos_par) < min_contratos_repetidos THEN SemPadroes
    ELSE IF TemSemValor(contratos_par) THEN Levantou
    ELSE Padroes(<<[tipo |-> "contratos_repetidos",
                    gravidade |-> "media",
                    num_contratos |-> Len(contratos_par),
                    valor_total |-> Soma(contratos_par)]>>)

DetectarContratosRepetidos(cs) ==
    LET grupos == Agrupar(cs, [i \in 1..Len(cs) |-> ParRepetidos(cs[i])])
    IN  Juntar([k \in 1..Len(grupos) |-> RepetidosDoPar(grupos[k])])

\* ---- rule 4: _detectar_concentracao_temporal ----------------------------

RECURSIVE JanelaConcentracao(_, _)
JanelaConcentracao(datas, i) ==
    IF i > Len(datas) THEN SemPadroes
    ELSE IF ~Strptime(DataContrato(datas[i])).ok THEN Levantou
    ELSE LET resto == SubSeq(datas, i, Len(datas))
             data_fim == Ordinal(Strptime(DataContrato(datas[i])))
                             + janela_concentracao_dias
         IN  IF DataMalformada(resto) THEN Levantou
             ELSE LET contratos_janela == NaJanela(resto, data_fim)
                  IN  IF Len(contratos_janela) < min_contratos_concentracao
                      THEN JanelaConcentracao(datas, i + 1)
                      ELSE IF TemSemValor(contratos_janela) THEN Levantou
                      ELSE Padroes(<<
                              [tipo |-> "concentracao_temporal",
                               gravidade |-> "media",
                               data_inicio |-> DataContrato(datas[i]),
                               num_contratos |-> Len(contratos_janela),
                               valor_total |-> Soma(contratos_janela)]>>)

DetectarConcentracaoTemporal(cs) ==
    JanelaConcentracao(OrdenarPorData(SelectSeq(cs, TemData)), 1)

\* ---- rule 5: _detectar_valores_redondos ---------------------------------

LimitesEvitados == <<75000, 150000, 214000, 548000>>
DiferencasCalculadas == {1, 10, 50, 100}

ValorCalculado(valor, limite, id_contrato) ==
    IF /\ limite - 100 <= valor
       /\ valor < limite
       /\ limite - valor \in DiferencasCalculadas
    THEN <<[tipo |-> "valor_calculado_suspeito",
            gravidade |-> "alta",
            id_contrato |-> id_contrato,
            valor |-> valor,
            limite_evitado |-> limite]>>
    ELSE <<>>

ValorExato(valor, id_contrato) ==
    IF valor \in valores_redondos_suspeitos
    THEN <<[tipo |-> "valor_exato_suspeito",
            gravidade |-> "alta",
            id_contrato |-> id_contrato,
            valor |-> valor]>>
    ELSE <<>>

ValorRedondoSoExato(contrato) ==
    LET valor == Get(contrato, "valor", <<0>>)
    IN  IF valor = SemValor THEN Levantou
        ELSE Padroes(ValorExato(valor[1], Get(contrato, "id_contrato", NULL)))

ValorRedondo(contrato) ==
    LET valor == Get(contrato, "valor", <<0>>)
        id_contrato == Get(contrato, "id_contrato", NULL)
    IN  IF valor = SemValor THEN Levantou         \* limite - 100 <= None
        ELSE Padroes(ValorExato(valor[1], id_contrato)
                     \o Concat([k \in 1..Len(LimitesEvitados) |->
                                   ValorCalculado(valor[1], LimitesEvitados[k],
                                                  id_contrato)]))

DetectarValoresRedondos(cs) ==
    Juntar([i \in 1..Len(cs) |-> ValorRedondo(cs[i])])

\* ---- rule 6: _detectar_procedimento_inadequado --------------------------

Inadequado(contrato, valor, procedimento) ==
    [tipo |-> "procedimento_inadequado",
     gravidade |-> "alta",
     id_contrato |-> Get(contrato, "id_contrato", NULL),
     valor |-> valor,
     procedimento |-> procedimento]

ProcedimentoInadequado(contrato) ==
    LET valor == Get(contrato, "valor", <<0>>)
        proc == Get(contrato, "tipo_procedimento", <<>>)
        tipo == Get(contrato, "tipo_contrato", <<>>)
    IN  IF proc = NULL THEN Levantou              \* None.lower()
        ELSE IF valor = SemValor THEN Levantou    \* None <= 0
        ELSE IF valor[1] <= 0 \/ proc = <<>> THEN SemPadroes
        ELSE IF tipo = NULL THEN Levantou         \* None.lower()
        ELSE
          LET procedimento == Lower(proc)
              ajuste == /\ Contem(procedimento, Txt_ajuste)
                        /\ valor[1] > get_limite_ajuste_direto(tipo)
              consulta == /\ Contem(procedimento, Txt_consulta)
                          /\ valor[1] > get_limite_consulta_previa(tipo)
              um == Inadequado(contrato, valor[1], procedimento)
          IN  Padroes((IF ajuste THEN <<um>> ELSE <<>>)
                      \o (IF consulta THEN <<um>> ELSE <<>>))

DetectarProcedimentoInadequado(cs) ==
    Juntar([i \in 1..Len(cs) |-> ProcedimentoInadequado(cs[i])])

\* ---- rule 7: _detectar_vesperas_feriados --------------------------------

\* the month and day of each '%m-%d' of the list
Feriados ==
    { <<1, 1>>, <<4, 25>>, <<5, 1>>, <<6, 10>>, <<8, 15>>, <<10, 5>>,
      <<11, 1>>, <<12, 1>>, <<12, 8>>, <<12, 25>> }

VesperaFeriado(contrato) ==
    LET publicacao == Get(contrato, "data_publicacao", NULL)
        data_str == IF TextoVerdadeiro(publicacao) THEN publicacao
                    ELSE Get(contrato, "data_contrato", NULL)
        id_contrato == Get(contrato, "id_contrato", NULL)
    IN  IF ~TextoVerdadeiro(data_str) THEN SemPadroes
        ELSE LET data == Strptime(data_str)
             IN  IF ~data.ok THEN SemPadroes      \* except: continue
                 ELSE Padroes(
                            (IF Weekday(data) = 4
                                THEN <<[tipo |-> "publicacao_vespera",
                                        subtipo |-> "fim_semana",
                                        gravidade |-> "baixa",
                                        id_contrato |-> id_contrato,
                                        data |-> data_str]>>
                                ELSE <<>>)
                            \o (IF <<data.mes, data.dia>> \in Feriados
                                THEN <<[tipo |-> "publicacao_vespera",
                                        subtipo |-> "feriado",
                                        gravidade |-> "media",
                                        id_contrato |-> id_contrato,
                                        data |-> data_str]>>
                                ELSE <<>>))

DetectarVesperasFeriados(cs) ==
    Juntar([i \in 1..Len(cs) |-> VesperaFeriado(cs[i])])

\* ---- analisar_contratos, with the default configuration -----------------

\* padroes.extend(regra(contratos)) for the seven rules in turn; a raise of
\* a rule ends the analysis
PadroesDe(cs) ==
    Juntar(<<DetectarValoresSuspeitos(cs),
             DetectarFracionamento(cs),
             DetectarContratosRepetidos(cs),
             DetectarConcentracaoTemporal(cs),
             DetectarValoresRedondos(cs),
             DetectarProcedimentoInadequado(cs),
             DetectarVesperasFeriados(cs)>>)

AnalisarContratos ==
    /\ \E r \in {PadroesDe(lista)} :
           analise' = [op |-> "analisar_contratos",
                       erro |-> r.erro,
                       valor |-> r.padroes]
    /\ UNCHANGED <<pessoas, cargos, associacoes, contratos, conflitos,
                   retorno, fios, lista, figuras, entrada>>

-----------------------------------------------------------------------------
(* The contract lists analisar_contratos is given.                         *)

MaxLista == 2       \* contracts of a list

\* 'Aquisição de Serviços'
AquisicaoServicos == <<"A", "q", "u", "i", "s", "i", "c,", "a~", "o", " ", "d",
    "e", " ", "S", "e", "r", "v", "i", "c,", "o", "s">>
\* 'Empreitadas de Obras Públicas'
EmpreitadasObras == <<"E", "m", "p", "r", "e", "i", "t", "a", "d", "a", "s",
    " ", "d", "e", " ", "O", "b", "r", "a", "s", " ", "P", "u'", "b", "l", "i",
    "c", "a", "s">>
\* 'Ajuste Direto'
AjusteDireto == <<"A", "j", "u", "s", "t", "e", " ", "D", "i", "r", "e", "t",
    "o">>
\* 'Concurso Público'
ConcursoPublico == <<"C", "o", "n", "c", "u", "r", "s", "o", " ", "P", "u'",
    "b", "l", "i", "c", "o">>
\* 'Empresa Suspeita Lda'
EmpresaSuspeita == <<"E", "m", "p", "r", "e", "s", "a", " ", "S", "u", "s",
    "p", "e", "i", "t", "a", " ", "L", "d", "a">>

\* '2024-03-01', a Friday; '2024-04-25', a holiday; and texts that are not
\* '%Y-%m-%d' dates
DataSexta == Data3
DataFeriado == <<"2", "0", "2", "4", "-", "0", "4", "-", "2", "5">>
DataSemZeros == <<"2", "0", "2", "4", "-", "1", "-", "5">>
DataBarras == <<"1", "5", "/", "0", "1", "/", "2", "0", "2", "4">>
DataForaDoCalendario == <<"2", "0", "2", "4", "-", "0", "2", "-", "3", "0">>

\* values at and around the margins of the two direct-award ceilings
ValoresFronteira ==
    {0, 50000, 71249, 71250, 74249, 74250, 74999, 75000, 75001,
     142499, 142500, 148499, 148500, 149990, 150000, 150001}

\* a contract as test_suspicious_patterns writes them
ContratoDe(valor, tipo_contrato, tipo_procedimento, data_contrato) ==
    [id_contrato |-> "TEST001",
     adjudicante |-> CamaraMunicipalLisboa,
     adjudicataria |-> EmpresaSuspeita,
     valor |-> valor,
     tipo_contrato |-> tipo_contrato,
     tipo_procedimento |-> tipo_procedimento,
     data_contrato |-> data_contrato]

ContratosCompletos ==
    { ContratoDe(<<v>>, t, p, Data1) :
        v \in ValoresFronteira,
        t \in {AquisicaoServicos, EmpreitadasObras},
        p \in {AjusteDireto, ConcursoPublico} }

\* contracts with a key absent, None, or a date that is not a date
ContratosIncompletos ==
    { [id_contrato |-> "TEST002", tipo_contrato |-> AquisicaoServicos,
       tipo_procedimento |-> AjusteDireto, data_contrato |-> Data1],
      ContratoDe(SemValor, AquisicaoServicos, AjusteDireto, Data1),
      [id_contrato |-> "TEST002", valor |-> <<74999>>,
       tipo_contrato |-> AquisicaoServicos,
       tipo_procedimento |-> AjusteDireto],
      ContratoDe(<<74999>>, AquisicaoServicos, AjusteDireto, NULL),
      ContratoDe(<<74999>>, AquisicaoServicos, AjusteDireto, <<>>),
      ContratoDe(<<74999>>, AquisicaoServicos, AjusteDireto, DataBarras),
      ContratoDe(<<50000>>, AquisicaoServicos, ConcursoPublico,
                 DataForaDoCalendario),
      ContratoDe(<<50000>>, AquisicaoServicos, ConcursoPublico, DataSemZeros),
      ContratoDe(<<50000>>, AquisicaoServicos, ConcursoPublico, DataSexta),
      ContratoDe(<<50000>>, EmpreitadasObras, ConcursoPublico, DataFeriado),
      [id_contrato |-> "TEST002", valor |-> <<74250>>,
       tipo_procedimento |-> ConcursoPublico, data_contrato |-> Data1,
       data_publicacao |-> DataSexta],
      [id_contrato |-> "TEST002", valor |-> <<74249>>,
       tipo_contrato |-> AquisicaoServicos, data_contrato |-> DataBarras,
       data_publicacao |-> DataFeriado],
      ContratoDe(<<74999>>, AquisicaoServicos, NULL, Data1),
      ContratoDe(<<74999>>, NULL, ConcursoPublico, Data1) }

ContratosAnalise == ContratosCompletos \cup ContratosIncompletos

ListasAte(n) == UNION { [1..k -> ContratosAnalise] : k \in 0..n }

InitAnalise ==
    /\ pessoas = <<>>
    /\ cargos = <<>>
    /\ associacoes = <<>>
    /\ contratos = {}
    /\ conflitos = <<>>
    /\ retorno = Nada
    /\ fios = <<>>
    /\ lista \in ListasAte(MaxLista)
    /\ analise = Nada
    /\ figuras = <<>>
    /\ entrada = Nada

NextAnalise == AnalisarContratos

SpecAnalise == InitAnalise /\ [][NextAnalise]_vars

-----------------------------------------------------------------------------
(* Properties of the conflict store and of detectar_conflitos_interesse.   *)

ChavesDe(ll) ==
    { <<ll[i].pessoa_id, ll[i].cargo, ll[i].empresa, ll[i].id_contrato>> :
        i \in 1..Len(ll) }

ParesDe(ll) == { <<ll[i].pessoa_id, ll[i].id_contrato>> : i \in 1..Len(ll) }

Detetou == retorno.op = "detectar_conflitos_interesse"

Devolveu == Detetou /\ ~retorno.erro

\* C1: under one caller at a time, the conflitos table never holds two rows
\* with the same (pessoa_id, id_contrato).
C1_UmaLinhaPorPar ==
    \A i, j \in 1..Len(conflitos) :
        (/\ conflitos[i].pessoa_id = conflitos[j].pessoa_id
         /\ conflitos[i].id_contrato = conflitos[j].id_contrato) => i = j

\* a repeated detection over a store that already holds two rows of a person
C1_Testemunha ==
    /\ Detetou
    /\ retorno.repetida
    /\ Len(conflitos) >= 2
    /\ conflitos[1].pessoa_id = conflitos[2].pessoa_id

\* C2: with callers whose SELECTs and INSERTs interleave, the conflitos
\* table still never holds two rows with the same (pessoa_id, id_contrato).
C2_UmaLinhaPorParEmCorrida ==
    Cardinality(ParesDe(conflitos)) = Len(conflitos)

\* C3: a detection that follows the same detection, with nothing added in
\* between, leaves the conflitos table as it was.
C3_SegundaNadaInsere ==
    [][(retorno'.op = "detectar_conflitos_interesse" /\ retorno'.repetida)
           => conflitos' = conflitos]_vars

\* the second of two detections in succession, over a non-empty table
C3_Testemunha ==
    /\ Detetou
    /\ retorno.repetida
    /\ ~retorno.erro
    /\ Len(conflitos) >= 1

\* The repository holds the rows of test_associations and nothing else.
EFixture ==
    /\ Len(pessoas) = 1
    /\ Len(cargos) = 1
    /\ Len(associacoes) = 2
    /\ associacoes[1].empresa_nome # associacoes[2].empresa_nome
    /\ contratos = ContratosFixture

\* C4: on the rows of test_associations the detection returns two conflicts,
\* one per contract: 'critica' for ASSOC001 (awarded by the person's own
\* chamber) and 'alta' for ASSOC002 (awarded by the parish council).
C4_Fixture ==
    (EFixture /\ Detetou) =>
        /\ ~retorno.erro
        /\ Len(retorno.valor) = 2
        /\ \E i, j \in 1..2 :
               /\ retorno.valor[i].id_contrato = "ASSOC001"
               /\ retorno.valor[i].gravidade = "critica"
               /\ retorno.valor[i].empresa = ConstrutoraSilva
               /\ retorno.valor[j].id_contrato = "ASSOC002"
               /\ retorno.valor[j].gravidade = "alta"
               /\ retorno.valor[j].empresa = ConsultoriaJPS

C4_Testemunha ==
    /\ EFixture
    /\ Detetou
    /\ retorno.pessoa_id = <<1>>
    /\ Len(conflitos) = 2

\* The chain as a decision: critical, otherwise high, otherwise medium.
SeveridadePelaCadeia(cargo, entidade, adjudicante) ==
    IF Contem(Lower(adjudicante), Lower(entidade)) THEN "critica"
    ELSE IF \E i \in 1..Len(CargosAltos) : Contem(Lower(cargo), CargosAltos[i])
         THEN "alta"
         ELSE "media"

\* C5: every returned conflict has one of the three severities, and the
\* severity is the one the chain gives for an active position of the person
\* under that title and the awarder of the contract; each such position has
\* its conflict for the contract.
C5_CadeiaDeGravidade ==
    Devolveu =>
        \A i \in 1..Len(retorno.valor) :
            LET c == retorno.valor[i]
                DoConflito(k) ==
                    /\ cargos[k].pessoa_id = c.pessoa_id
                    /\ cargos[k].ativo = 1
                    /\ cargos[k].cargo = c.cargo
            IN  /\ c.gravidade \in {"media", "alta", "critica"}
                /\ \E k \in 1..Len(cargos) :
                       /\ DoConflito(k)
                       /\ c.gravidade = SeveridadePelaCadeia(
                              cargos[k].cargo, cargos[k].entidade,
                              c.adjudicante)
                /\ \A k \in 1..Len(cargos) :
                       DoConflito(k) =>
                           \E j \in 1..Len(retorno.valor) :
                               /\ retorno.valor[j].id_contrato = c.id_contrato
                               /\ retorno.valor[j].empresa = c.empresa
                               /\ retorno.valor[j].cargo = c.cargo
                               /\ retorno.valor[j].gravidade =
                                      SeveridadePelaCadeia(
                                          cargos[k].cargo, cargos[k].entidade,
                                          c.adjudicante)

\* one detection returning a critical conflict of a high office and a
\* conflict that is not critical
C5_Testemunha ==
    /\ Devolveu
    /\ \E i, j \in 1..Len(retorno.valor) :
           /\ retorno.valor[i].gravidade = "critica"
           /\ \E k \in 1..Len(CargosAltos) :
                  Contem(Lower(retorno.valor[i].cargo), CargosAltos[k])
           /\ retorno.valor[j].gravidade # "critica"

\* What a detection finds, from the tables: the (person, title, company,
\* contract) of every active position and active association of a person
\* (the given one, when one is given) and every contract awarded to the
\* company by a public body.
Encontrados(pessoa_id) ==
    LET Todos == { t \in (1..Len(cargos)) \X (1..Len(associacoes))
                            \X contratos :
                     /\ cargos[t[1]].ativo = 1
                     /\ associacoes[t[2]].ativo = 1
                     /\ cargos[t[1]].pessoa_id = associacoes[t[2]].pessoa_id
                     /\ Verdadeiro(pessoa_id)
                            => cargos[t[1]].pessoa_id = pessoa_id[1]
                     /\ t[3].adjudicataria # NULL
                     /\ Like(t[3].adjudicataria,
                             <<"%">> \o associacoes[t[2]].empresa_nome
                                 \o <<"%">>)
                     /\ t[3].adjudicante # NULL
                     /\ EhEntidadePublica(Lower(t[3].adjudicante)) }
    IN  { <<cargos[t[1]].pessoa_id, cargos[t[1]].cargo,
            associacoes[t[2]].empresa_nome, t[3].id_contrato>> : t \in Todos }

\* C6: a detection that returns gives everything it found, stored before or
\* not; it inserts one row for each (person, contract) of the list that had
\* no row; and after the same detection it returns the same list and
\* inserts nothing.
C6_DevolveTudoInsereNovos ==
    [][(retorno'.op = "detectar_conflitos_interesse" /\ ~retorno'.erro) =>
           /\ ChavesDe(retorno'.valor) = Encontrados(retorno'.pessoa_id)
           /\ Len(conflitos') - Len(conflitos) =
                  Cardinality(ParesDe(retorno'.valor) \ ParesDe(conflitos))
           /\ \A i \in 1..Len(conflitos) : conflitos'[i] = conflitos[i]
           /\ (retorno'.repetida /\ ~retorno.erro) =>
                  /\ retorno'.valor = retorno.valor
                  /\ conflitos' = conflitos]_vars

\* a second detection in succession that returns two conflicts, all of them
\* stored by the first
C6_Testemunha ==
    /\ Devolveu
    /\ retorno.repetida
    /\ Len(retorno.valor) >= 2
    /\ ParesDe(retorno.valor) \subseteq ParesDe(conflitos)

\* C7: every returned conflict is of the given person when a pessoa_id is
\* given, of a person with an active position, of a company of an active
\* association of that person, and of a contract awarded to that company by
\* a body with a public keyword in its name.
C7_SoDaPessoaDada ==
    Devolveu =>
        \A i \in 1..Len(retorno.valor) :
            LET c == retorno.valor[i]
            IN  /\ retorno.pessoa_id # SemValor
                       => c.pessoa_id = retorno.pessoa_id[1]
                /\ \E k \in 1..Len(cargos) :
                       cargos[k].pessoa_id = c.pessoa_id /\ cargos[k].ativo = 1
                /\ \E a \in 1..Len(associacoes) :
                       /\ associacoes[a].pessoa_id = c.pessoa_id
                       /\ associacoes[a].ativo = 1
                       /\ associacoes[a].empresa_nome = c.empresa
                /\ \E ct \in contratos :
                       /\ ct.id_contrato = c.id_contrato
                       /\ ct.adjudicataria # NULL
                       /\ Like(ct.adjudicataria,
                               <<"%">> \o c.empresa \o <<"%">>)
                       /\ ct.adjudicante # NULL
                       /\ EhEntidadePublica(Lower(ct.adjudicante))

-----------------------------------------------------------------------------
(* Properties of analisar_contratos.                                       *)

Analisou == analise.op = "analisar_contratos"

\* no text other than the date is None in a contract of the list
TextosPresentes ==
    \A i \in 1..Len(lista) :
        /\ Get(lista[i], "tipo_contrato", <<>>) # NULL
        /\ Get(lista[i], "tipo_procedimento", <<>>) # NULL
        /\ Get(lista[i], "objeto_contrato", <<>>) # NULL

\* C8: whatever the values and the dates of the contracts (absent, None, or
\* a date text that is not a date), the analysis does not raise: it returns
\* its list of findings.
C8_AnaliseNaoLevanta ==
    (Analisou /\ TextosPresentes) => ~analise.erro

DoTipo(ps, tipos) ==
    LET EDoTipo(p) == p.tipo \in tipos
    IN  SelectSeq(ps, EDoTipo)

\* What rule 1 is to give for one contract: (value, ceiling, severity) when
\* the value is positive and within 5% below the ceiling of the category,
\* nothing otherwise.
PertoDoLimite(c) ==
    LET valor == Get(c, "valor", <<0>>)[1]
        teto == IF EhObra(Get(c, "tipo_contrato", <<>>))
                THEN 150000 ELSE 75000
        ajuste == Contem(Lower(Get(c, "tipo_procedimento", <<>>)), Txt_ajuste)
    IN  IF valor > 0 /\ 100 * valor >= 95 * teto /\ valor <= teto
        THEN << <<valor, teto,
                  IF 100 * (teto - valor) <= teto \/ ajuste
                  THEN "alta" ELSE "media">> >>
        ELSE <<>>

\* C9: in an analysis that returns, the findings of rule 1 are, contract by
\* contract and in the order of the list, one finding for each contract
\* whose value is positive and in [95% of the ceiling, ceiling] (75 000, or
\* 150 000 for works) and none for the others; the finding is 'alta' when
\* the shortfall is at most 1% of the ceiling or the procedure is a direct
\* award, else 'media'.
C9_Regra1 ==
    (Analisou /\ ~analise.erro) =>
        LET achados == DoTipo(analise.valor, {"valor_suspeito_limite"})
        IN  [k \in 1..Len(achados) |->
                <<achados[k].valor, achados[k].limite, achados[k].gravidade>>]
            = Concat([i \in 1..Len(lista) |-> PertoDoLimite(lista[i])])

\* a goods contract of 74 999 under a public tender ('alta' by the shortfall
\* alone) followed by one of 50 000: one finding of rule 1
C9_Testemunha ==
    /\ Analisou
    /\ ~analise.erro
    /\ Len(lista) = 2
    /\ lista[1] = ContratoDe(<<74999>>, AquisicaoServicos, ConcursoPublico,
                             Data1)
    /\ lista[2] = ContratoDe(<<50000>>, AquisicaoServicos, ConcursoPublico,
                             Data1)
    /\ Len(DoTipo(analise.valor, {"valor_suspeito_limite"})) = 1
    /\ DoTipo(analise.valor, {"valor_suspeito_limite"})[1].gravidade = "alta"

\* the list is one goods or services contract of 74 999, and the analysis
\* returned
Um74999 ==
    /\ Analisou
    /\ ~analise.erro
    /\ Len(lista) = 1
    /\ Get(lista[1], "valor", <<0>>) = <<74999>>
    /\ ~EhObra(Get(lista[1], "tipo_contrato", <<>>))

\* C10, as stated: for one goods or services contract of 74 999, rules 1
\* and 5 give two findings, one each.
C10_DoisAchados ==
    Um74999 =>
        /\ Len(DoTipo(analise.valor, {"valor_suspeito_limite"})) = 1
        /\ Len(DoTipo(analise.valor, {"valor_exato_suspeito",
                                      "valor_calculado_suspeito"})) = 1

\* C10, amended: for one goods or services contract of 74 999, rules 1 and
\* 5 give three findings: one of rule 1, and two of rule 5, one for the
\* value being in the list of suspect values and one for its being 1 below
\* the ceiling of 75 000.
C10_TresAchados ==
    Um74999 =>
        /\ Len(DoTipo(analise.valor, {"valor_suspeito_limite"})) = 1
        /\ Len(DoTipo(analise.valor, {"valor_exato_suspeito"})) = 1
        /\ Len(DoTipo(analise.valor, {"valor_calculado_suspeito"})) = 1
        /\ DoTipo(analise.valor, {"valor_calculado_suspeito"})[1]
               .limite_evitado = 75000
        /\ Len(DoTipo(analise.valor, {"valor_suspeito_limite",
               "valor_exato_suspeito", "valor_calculado_suspeito"})) = 3

C10_Testemunha ==
    /\ Um74999
    /\ lista[1] = ContratoDe(<<74999>>, AquisicaoServicos, AjusteDireto, Data1)
    /\ Len(analise.valor) = 3

-----------------------------------------------------------------------------
(* Lists for _detectar_contratos_repetidos: contracts of two pairs, one of *)
(* them with a contract that has no value key and one whose value is None, *)
(* in lists long enough for a pair to reach min_contratos_repetidos, and   *)
(* the lists of twice that length where both pairs can reach it.           *)

MaxRepetidos == 5

ContratoDoPar(adjudicataria, valor) ==
    [id_contrato |-> "TEST001",
     adjudicante |-> CamaraMunicipalLisboa,
     adjudicataria |-> adjudicataria,
     valor |-> valor,
     tipo_contrato |-> AquisicaoServicos,
     tipo_procedimento |-> ConcursoPublico,
     data_contrato |-> Data1]

ContratoSemChaveValor ==
    [id_contrato |-> "TEST004",
     adjudicante |-> CamaraMunicipalLisboa,
     adjudicataria |-> EmpresaSuspeita,
     tipo_contrato |-> AquisicaoServicos,
     tipo_procedimento |-> ConcursoPublico,
     data_contrato |-> Data1]

DoisPares ==
    { ContratoDoPar(EmpresaSuspeita, <<1000>>),
      ContratoDoPar(ConstrutoraSilva, <<2000>>) }

ContratosRepetidos ==
    DoisPares \cup { ContratoSemChaveValor,
                     ContratoDoPar(EmpresaSuspeita, SemValor) }

ListasRepetidos ==
    UNION { [1..k -> ContratosRepetidos] : k \in 0..MaxRepetidos }
        \cup [1..(2 * min_contratos_repetidos) -> DoisPares]

InitRepetidos ==
    /\ pessoas = <<>>
    /\ cargos = <<>>
    /\ associacoes = <<>>
    /\ contratos = {}
    /\ conflitos = <<>>
    /\ retorno = Nada
    /\ fios = <<>>
    /\ lista \in ListasRepetidos
    /\ analise = Nada
    /\ figuras = <<>>
    /\ entrada = Nada

SpecRepetidos == InitRepetidos /\ [][NextAnalise]_vars

-----------------------------------------------------------------------------
(* Properties of rule 3.                                                   *)

\* the (awarder, awardee) of a contract, '' for a key that is absent
ParDe(c) == <<Get(c, "adjudicante", <<>>), Get(c, "adjudicataria", <<>>)>>

\* the positions of the list held by the contracts of pair p
PosicoesDoPar(p) == {i \in 1..Len(lista) : ParDe(lista[i]) = p}

\* the pairs with at least five contracts in the list
ParesRepetidos ==
    {p \in {ParDe(lista[i]) : i \in 1..Len(lista)} :
        Cardinality(PosicoesDoPar(p)) >= 5}

RECURSIVE SomaDasPosicoes(_)
SomaDasPosicoes(posicoes) ==
    IF posicoes = {} THEN 0
    ELSE LET i == CHOOSE j \in posicoes : TRUE
         IN  Get(lista[i], "valor", <<0>>)[1] + SomaDasPosicoes(posicoes \ {i})

\* C11: in an analysis that returns, rule 3 gives one 'media' finding for
\* each distinct (awarder, awardee) pair with at least 5 contracts in the
\* list, in the order in which the pairs first occur, and none for a pair
\* with 4 or fewer; each finding carries the number of contracts of its
\* pair and the sum of their values, a contract without a value counting 0.
C11_Regra3 ==
    (Analisou /\ ~analise.erro) =>
        LET achados == DoTipo(analise.valor, {"contratos_repetidos"})
            Primeiro(p) == CHOOSE i \in PosicoesDoPar(p) :
                               \A j \in PosicoesDoPar(p) : i <= j
            Ordem(p) == Cardinality({q \in ParesRepetidos :
                                        Primeiro(q) <= Primeiro(p)})
        IN  /\ Len(achados) = Cardinality(ParesRepetidos)
            /\ \A p \in ParesRepetidos :
                   /\ achados[Ordem(p)].gravidade = "media"
                   /\ achados[Ordem(p)].num_contratos
                          = Cardinality(PosicoesDoPar(p))
                   /\ achados[Ordem(p)].valor_total
                          = SomaDasPosicoes(PosicoesDoPar(p))

\* ten contracts, six of one pair and four of the other: one finding, of
\* the 6 contracts and their 6 000
C11_Testemunha ==
    /\ Analisou
    /\ ~analise.erro
    /\ Len(lista) = 10
    /\ Cardinality(PosicoesDoPar(<<CamaraMunicipalLisboa, EmpresaSuspeita>>)) = 6
    /\ Len(DoTipo(analise.valor, {"contratos_repetidos"})) = 1
    /\ DoTipo(analise.valor, {"contratos_repetidos"})[1].num_contratos = 6
    /\ DoTipo(analise.valor, {"contratos_repetidos"})[1].valor_total = 6000

-----------------------------------------------------------------------------
(* LimitesLegais on its own: the table as test_limites_legais reads it,    *)
(* and the two lookups called with one tipo_contrato, as                  *)
(* _detectar_procedimento_inadequado calls them.  The labels are every     *)
(* text of up to MaxRotulo letters of 'obra' in either case, and labels of *)
(* the contracts.                                                          *)

MaxRotulo == 4

LetrasRotulo == {"o", "b", "r", "a", "O", "R"}

\* 'EMPREITADA', and 'Empreitad', which holds no keyword
EMPREITADA == <<"E", "M", "P", "R", "E", "I", "T", "A", "D", "A">>
Empreitad == <<"E", "m", "p", "r", "e", "i", "t", "a", "d">>

Rotulos ==
    UNION { [1..k -> LetrasRotulo] : k \in 0..MaxRotulo }
        \cup {AquisicaoServicos, EmpreitadasObras, EMPREITADA, Empreitad}

\* the class attributes
LimitesLegaisTrocados ==
    [AJUSTE_DIRETO_BENS_SERVICOS |-> AJUSTE_DIRETO_BENS_SERVICOS,
     AJUSTE_DIRETO_OBRAS |-> AJUSTE_DIRETO_OBRAS,
     CONSULTA_PREVIA_BENS_SERVICOS |-> CONSULTA_PREVIA_BENS_SERVICOS,
     CONSULTA_PREVIA_OBRAS |-> CONSULTA_PREVIA_OBRAS,
     UE_BENS_SERVICOS |-> UE_OBRAS,
     UE_OBRAS |-> UE_BENS_SERVICOS]

LimitesLegais ==
    [AJUSTE_DIRETO_BENS_SERVICOS |-> AJUSTE_DIRETO_BENS_SERVICOS,
     AJUSTE_DIRETO_OBRAS |-> AJUSTE_DIRETO_OBRAS,
     CONSULTA_PREVIA_BENS_SERVICOS |-> CONSULTA_PREVIA_BENS_SERVICOS,
     CONSULTA_PREVIA_OBRAS |-> CONSULTA_PREVIA_OBRAS,
     UE_BENS_SERVICOS |-> UE_BENS_SERVICOS,
     UE_OBRAS |-> UE_OBRAS]

TestLimitesLegais ==
    /\ retorno' = [op |-> "test_limites_legais", limites |-> LimitesLegais]
    /\ UNCHANGED <<pessoas, cargos, associacoes, contratos, conflitos, fios,
                   lista, analise, figuras, entrada>>

GetLimites ==
    /\ retorno' = [op |-> "get_limite",
                   ajuste_direto |-> get_limite_ajuste_direto(entrada),
                   consulta_previa |-> get_limite_consulta_previa(entrada)]
    /\ UNCHANGED <<pessoas, cargos, associacoes, contratos, conflitos, fios,
                   lista, analise, figuras, entrada>>

InitLimites ==
    /\ pessoas = <<>>
    /\ cargos = <<>>
    /\ associacoes = <<>>
    /\ contratos = {}
    /\ conflitos = <<>>
    /\ retorno = Nada
    /\ fios = <<>>
    /\ lista = <<>>
    /\ analise = Nada
    /\ figuras = <<>>
    /\ entrada \in Rotulos

NextLimites ==
    \/ TestLimitesLegais
    \/ GetLimites

SpecLimites == InitLimites /\ [][NextLimites]_vars

-----------------------------------------------------------------------------
(* Properties of LimitesLegais.                                            *)

LeuLimites == retorno.op = "test_limites_legais"

\* C12, as stated: in each of the two categories the ceilings are in the
\* order direct award < prior consultation < European Union.
C12_TetosEmOrdem ==
    LeuLimites =>
        /\ retorno.limites.AJUSTE_DIRETO_BENS_SERVICOS
               < retorno.limites.CONSULTA_PREVIA_BENS_SERVICOS
        /\ retorno.limites.CONSULTA_PREVIA_BENS_SERVICOS
               < retorno.limites.UE_BENS_SERVICOS
        /\ retorno.limites.AJUSTE_DIRETO_OBRAS
               < retorno.limites.CONSULTA_PREVIA_OBRAS
        /\ retorno.limites.CONSULTA_PREVIA_OBRAS < retorno.limites.UE_OBRAS

\* C12, amended: in each category the direct-award ceiling is below the
\* prior-consultation ceiling; the prior-consultation ceiling is below the
\* European Union ceiling for works only, and for goods and services the
\* European Union ceiling lies between the other two.
C12_TetosDoCodigo ==
    LeuLimites =>
        /\ retorno.limites.AJUSTE_DIRETO_BENS_SERVICOS
               < retorno.limites.UE_BENS_SERVICOS
        /\ retorno.limites.UE_BENS_SERVICOS
               < retorno.limites.CONSULTA_PREVIA_BENS_SERVICOS
        /\ retorno.limites.AJUSTE_DIRETO_OBRAS
               < retorno.limites.CONSULTA_PREVIA_OBRAS
        /\ retorno.limites.CONSULTA_PREVIA_OBRAS < retorno.limites.UE_OBRAS

\* the table was read, and holds 214 000 and 140 000 for goods and services
C12_Testemunha ==
    /\ LeuLimites
    /\ retorno.limites.CONSULTA_PREVIA_BENS_SERVICOS = 214000
    /\ retorno.limites.UE_BENS_SERVICOS = 140000

\* the label holds 'obra' or 'empreitada' in some mix of cases
TemPalavraDeObra(rotulo) ==
    \E palavra \in {Txt_obra, Txt_empreitada} :
        \E i \in 0..(Len(rotulo) - Len(palavra)) :
            \A j \in 1..Len(palavra) : LowerCh(rotulo[i + j]) = palavra[j]

\* C13: for every label the direct-award ceiling returned is below the
\* prior-consultation ceiling returned, and the two lookups agree on the
\* category: they return (150 000, 548 000) when the label holds 'obra' or
\* 'empreitada' in any case, and (75 000, 214 000) otherwise.
C13_ParDeTetos ==
    retorno.op = "get_limite" =>
        /\ retorno.ajuste_direto < retorno.consulta_previa
        /\ <<retorno.ajuste_direto, retorno.consulta_previa>>
               = IF TemPalavraDeObra(entrada) THEN <<150000, 548000>>
                 ELSE <<75000, 214000>>

\* the lookups were called with 'EMPREITADA' and gave the works pair
C13_Testemunha ==
    /\ retorno.op = "get_limite"
    /\ entrada = EMPREITADA
    /\ retorno.ajuste_direto = 150000
    /\ retorno.consulta_previa = 548000

-----------------------------------------------------------------------------
(* The test of whether a figure takes part in a contract, as written in    *)
(* AlertsManager._verificar_contrato_individual and again in               *)
(* EntitiesManager.analisar_contratos_figura.  The contract is a           *)
(* dictionary; the figure is a row of figuras_interesse, whose nif may be  *)
(* None.                                                                   *)

\* `x or ''` and `x and ...` on a text: None and '' are false
TextoOuVazio(x) == IF TextoVerdadeiro(x) THEN x ELSE <<>>

\* the test with the name of the figure left in the case it was stored in
MatchDoAlertaSemLower(contrato, figura) ==
    LET adjudicante == Lower(TextoOuVazio(Get(contrato, "adjudicante", NULL)))
        adjudicataria ==
            Lower(TextoOuVazio(Get(contrato, "adjudicataria", NULL)))
        adjudicante_nif == Get(contrato, "adjudicante_nif", <<>>)
        adjudicataria_nif == Get(contrato, "adjudicataria_nif", <<>>)
        nome_figura == figura.nome
        nif_figura == Get(figura, "nif", <<>>)
    IN  [match_adjudicante |->
             \/ Contem(adjudicante, nome_figura)
             \/ TextoVerdadeiro(nif_figura) /\ nif_figura = adjudicante_nif,
         match_adjudicataria |->
             \/ Contem(adjudicataria, nome_figura)
             \/ TextoVerdadeiro(nif_figura) /\ nif_figura = adjudicataria_nif]

\* alerts.py: match_adjudicante, match_adjudicataria
MatchDoAlerta(contrato, figura) ==
    LET adjudicante == Lower(TextoOuVazio(Get(contrato, "adjudicante", NULL)))
        adjudicataria ==
            Lower(TextoOuVazio(Get(contrato, "adjudicataria", NULL)))
        adjudicante_nif == Get(contrato, "adjudicante_nif", <<>>)
        adjudicataria_nif == Get(contrato, "adjudicataria_nif", <<>>)
        nome_figura == Lower(figura.nome)
        nif_figura == Get(figura, "nif", <<>>)
    IN  [match_adjudicante |->
             \/ Contem(adjudicante, nome_figura)
             \/ TextoVerdadeiro(nif_figura) /\ nif_figura = adjudicante_nif,
         match_adjudicataria |->
             \/ Contem(adjudicataria, nome_figura)
             \/ TextoVerdadeiro(nif_figura) /\ nif_figura = adjudicataria_nif]

\* entities.py: eh_adjudicante, eh_adjudicataria
PapelDaFigura(contrato, figura) ==
    LET nome_figura == Lower(figura.nome)
        nif_figura == Get(figura, "nif", <<>>)
        adjudicante == Lower(TextoOuVazio(Get(contrato, "adjudicante", NULL)))
        adjudicataria ==
            Lower(TextoOuVazio(Get(contrato, "adjudicataria", NULL)))
        adjudicante_nif == Get(contrato, "adjudicante_nif", <<>>)
        adjudicataria_nif == Get(contrato, "adjudicataria_nif", <<>>)
    IN  [eh_adjudicante |->
             \/ Contem(adjudicante, nome_figura)
             \/ TextoVerdadeiro(nif_figura) /\ nif_figura = adjudicante_nif,
         eh_adjudicataria |->
             \/ Contem(adjudicataria, nome_figura)
             \/ TextoVerdadeiro(nif_figura) /\ nif_figura = adjudicataria_nif]

VerificarContratoIndividual ==
    /\ \E r \in {MatchDoAlerta(entrada.contrato, entrada.figura)} :
           retorno' = [op |-> "_verificar_contrato_individual",
                       adjudicante |-> r.match_adjudicante,
                       adjudicataria |-> r.match_adjudicataria]
    /\ UNCHANGED <<pessoas, cargos, associacoes, contratos, conflitos, fios,
                   lista, analise, figuras, entrada>>

AnalisarContratosFigura ==
    /\ \E r \in {PapelDaFigura(entrada.contrato, entrada.figura)} :
           retorno' = [op |-> "analisar_contratos_figura",
                       adjudicante |-> r.eh_adjudicante,
                       adjudicataria |-> r.eh_adjudicataria]
    /\ UNCHANGED <<pessoas, cargos, associacoes, contratos, conflitos, fios,
                   lista, analise, figuras, entrada>>

\* names of up to MaxNome letters, plain and accented, in both cases
MaxNome == 2

LetrasNome == {"a", "A", "c,", "C,"}

NomesAte(n) == UNION { [1..k -> LetrasNome] : k \in 0..n }

Nif5 == <<"5">>
Nif6 == <<"6">>

\* the awardee is a name or None; the awardee's nif is there or
\* is None; the awarder carries no nif key, or the nif of the awardee
ContratosDeNomes ==
    { [id_contrato |-> "TEST001", adjudicante |-> a, adjudicataria |-> b,
       adjudicataria_nif |-> n] :
          a \in NomesAte(MaxNome),
          b \in {NULL, <<"C,", "a">>},
          n \in {NULL, Nif5} }
        \cup
    { [id_contrato |-> "TEST001", adjudicante |-> a, adjudicante_nif |-> Nif5,
       adjudicataria |-> <<"a", "C,">>, adjudicataria_nif |-> Nif5] :
          a \in NomesAte(MaxNome) \cup {NULL} }

FigurasDeNomes ==
    { [id |-> 1, nome |-> n, nif |-> f] :
          n \in NomesAte(2) \ {<<>>}, f \in {NULL, <<>>, Nif5, Nif6} }

InitEnvolve ==
    /\ pessoas = <<>>
    /\ cargos = <<>>
    /\ associacoes = <<>>
    /\ contratos = {}
    /\ conflitos = <<>>
    /\ retorno = Nada
    /\ fios = <<>>
    /\ lista = <<>>
    /\ analise = Nada
    /\ figuras = <<>>
    /\ entrada \in [contrato : ContratosDeNomes, figura : FigurasDeNomes]

NextEnvolve ==
    \/ VerificarContratoIndividual
    \/ AnalisarContratosFigura

SpecEnvolve == InitEnvolve /\ [][NextEnvolve]_vars

-----------------------------------------------------------------------------
(* Properties of the entity match.                                         *)

Comparou ==
    retorno.op \in {"_verificar_contrato_individual",
                    "analisar_contratos_figura"}

\* the texts that differ from nome in the case of letters only
VariantesDeCaixa(nome) ==
    IF nome = NULL THEN {NULL}
    ELSE {v \in [1..Len(nome) -> LetrasNome] : Lower(v) = Lower(nome)}

\* sub occurs in s, letter by letter, whatever the case of either
OcorreSemCaixa(s, sub) ==
    \E i \in 0..(Len(s) - Len(sub)) :
        \A j \in 1..Len(sub) : LowerCh(s[i + j]) = LowerCh(sub[j])

\* what the statement gives for one party (its name, None for none, and its
\* nif) and a figure
Envolvida(nome_parte, nif_parte, figura) ==
    \/ OcorreSemCaixa(IF nome_parte = NULL THEN <<>> ELSE nome_parte,
                      figura.nome)
    \/ figura.nif \notin {NULL, <<>>} /\ figura.nif = nif_parte

\* C14: the pair (as awarder, as awardee) both tests give is the one of the
\* statement: as awarder iff the name of the figure occurs in the awarder's
\* name, case apart, or the figure has a nif and it is the awarder's; the
\* same for the awardee.  The pair is the same for every contract and
\* figure that differ from these in the case of the letters of the three
\* names only.
C14_MatchSemCaixa ==
    Comparou =>
        LET c == entrada.contrato
            f == entrada.figura
        IN  /\ retorno.adjudicante
                   = Envolvida(c.adjudicante,
                               Get(c, "adjudicante_nif", <<>>), f)
            /\ retorno.adjudicataria
                   = Envolvida(c.adjudicataria, c.adjudicataria_nif, f)
            /\ \A a \in VariantesDeCaixa(c.adjudicante),
                  b \in VariantesDeCaixa(c.adjudicataria),
                  n \in VariantesDeCaixa(f.nome) :
                   LET c2 == [c EXCEPT !.adjudicante = a, !.adjudicataria = b]
                       f2 == [f EXCEPT !.nome = n]
                   IN  /\ MatchDoAlerta(c2, f2).match_adjudicante
                              = retorno.adjudicante
                       /\ MatchDoAlerta(c2, f2).match_adjudicataria
                              = retorno.adjudicataria
                       /\ PapelDaFigura(c2, f2).eh_adjudicante
                              = retorno.adjudicante
                       /\ PapelDaFigura(c2, f2).eh_adjudicataria
                              = retorno.adjudicataria

\* figure 'Ac,' without nif against a contract of 'aC,' with 'C,a': awarder
\* by name in another case, not awardee
C14_Testemunha ==
    /\ retorno.op = "_verificar_contrato_individual"
    /\ entrada.figura.nome = <<"A", "c,">>
    /\ entrada.figura.nif = NULL
    /\ entrada.contrato.adjudicante = <<"a", "C,">>
    /\ entrada.contrato.adjudicataria = <<"C,", "a">>
    /\ retorno.adjudicante
    /\ ~retorno.adjudicataria

\* both flags at once: the figure's name occurs in both parties' names
C14_TestemunhaAmbos ==
    /\ Comparou
    /\ retorno.adjudicante
    /\ retorno.adjudicataria

-----------------------------------------------------------------------------
(* figuras_interesse and detetar_conexoes (entities.py over database.py).  *)

\* adicionar_figura_interesse: INSERT; UNIQUE(nome, nif) is violated by a
\* row of the same nome and the same nif that is not NULL (NULLs are
\* distinct in a UNIQUE constraint), and then the id of the stored row is
\* returned.
AdicionarFiguraInteresse(nome, nif) ==
    /\ IF \E i \in 1..Len(figuras) :
              /\ figuras[i].nome = nome
              /\ nif # NULL
              /\ figuras[i].nif = nif
       THEN /\ figuras' = figuras
            /\ retorno' =
                   [op |-> "adicionar_figura",
                    valor |-> figuras[CHOOSE i \in 1..Len(figuras) :
                                  /\ figuras[i].nome = nome
                                  /\ figuras[i].nif = nif].id]
       ELSE /\ figuras' = Append(figuras,
                   [id |-> Len(figuras) + 1, nome |-> nome, nif |-> nif,
                    ativo |-> 1])
            /\ retorno' = [op |-> "adicionar_figura",
                           valor |-> Len(figuras) + 1]
    /\ UNCHANGED <<pessoas, cargos, associacoes, contratos, conflitos, fios,
                   lista, analise, entrada>>

\* desativar_figura_interesse: UPDATE ... SET ativo = 0 WHERE id = ?
DesativarFiguraInteresse(figura_id) ==
    /\ figuras' = [i \in 1..Len(figuras) |->
                      IF figuras[i].id = figura_id
                      THEN [figuras[i] EXCEPT !.ativo = 0]
                      ELSE figuras[i]]
    /\ retorno' = [op |-> "remover_figura", valor |-> TRUE]
    /\ UNCHANGED <<pessoas, cargos, associacoes, contratos, conflitos, fios,
                   lista, analise, entrada>>

\* listar_figuras_interesse(): the active rows ORDER BY nome; the order of
\* rows of one nome is SQLite's choice, so these are the lists it may give.
ListarFigurasInteresse ==
    LET ativas == {i \in 1..Len(figuras) : figuras[i].ativo = 1}
        n == Cardinality(ativas)
    IN  { [k \in 1..n |-> figuras[o[k]]] :
            o \in { p \in [1..n -> ativas] :
                      /\ \A j, k \in 1..n : j # k => p[j] # p[k]
                      /\ \A j, k \in 1..n :
                             j < k => ~NomeMenor(figuras[p[k]].nome,
                                                 figuras[p[j]].nome) } }

\* pesquisar_contratos_por_figura
PesquisarContratosPorFigura(figura_id) ==
    IF ~\E i \in 1..Len(figuras) : figuras[i].id = figura_id THEN <<>>
    ELSE LET figura == figuras[CHOOSE i \in 1..Len(figuras) :
                                   figuras[i].id = figura_id]
             padrao == <<"%">> \o figura.nome \o <<"%">>
             ColunaLike(coluna) == coluna # NULL /\ Like(coluna, padrao)
         IN  OrdenarPorDataDesc(
                 { c \in contratos :
                     \/ ColunaLike(c.adjudicante)
                     \/ ColunaLike(c.adjudicataria)
                     \/ /\ TextoVerdadeiro(figura.nif)
                        /\ \/ Get(c, "adjudicante_nif", NULL) = figura.nif
                           \/ Get(c, "adjudicataria_nif", NULL) = figura.nif })

\* _extrair_entidades_contrato: (nome, papel) of the parties that have a name
ExtrairEntidadesContrato(contrato) ==
    (IF TextoVerdadeiro(contrato.adjudicante)
     THEN <<[nome |-> contrato.adjudicante, papel |-> "adjudicante"]>>
     ELSE <<>>)
    \o
    (IF TextoVerdadeiro(contrato.adjudicataria)
     THEN <<[nome |-> contrato.adjudicataria, papel |-> "adjudicataria"]>>
     ELSE <<>>)

\* the loop over figuras_existentes: the id of the first figure of that
\* name, case apart, or 0 for None
ResolverEntidade(figuras_existentes, entidade_nome) ==
    LET iguais == {i \in 1..Len(figuras_existentes) :
                      Lower(figuras_existentes[i].nome) = Lower(entidade_nome)}
    IN  IF iguais = {} THEN 0
        ELSE figuras_existentes[CHOOSE i \in iguais :
                                    \A j \in iguais : i <= j].id

\* the pass over one popped figure, without the test of visitados
ConexoesDaFiguraSemVisitados(atual_id, nivel, visitados, figuras_existentes) ==
    LET cs == PesquisarContratosPorFigura(atual_id)
        DaEntidade(c, e) ==
            LET entidade_id == ResolverEntidade(figuras_existentes, e.nome)
            IN  IF entidade_id # 0 /\ entidade_id # atual_id
                THEN <<[origem_id |-> atual_id,
                        destino_id |-> entidade_id,
                        destino_nome |-> e.nome,
                        tipo_conexao |-> e.papel,
                        nivel |-> nivel + 1,
                        contrato |-> c.id_contrato]>>
                ELSE <<>>
        DoContrato(c) ==
            LET es == ExtrairEntidadesContrato(c)
            IN  Concat([k \in 1..Len(es) |-> DaEntidade(c, es[k])])
    IN  Concat([i \in 1..Len(cs) |-> DoContrato(cs[i])])

\* the pass over one popped figure, keeping one connection for each
\* destination
ConexoesDaFiguraUmaPorDestino(atual_id, nivel, visitados, figuras_existentes) ==
    LET PorVisitar(c) == c.destino_id \notin visitados
        todas == SelectSeq(ConexoesDaFiguraSemVisitados(
                               atual_id, nivel, visitados,
                               figuras_existentes), PorVisitar)
        primeiras == {k \in 1..Len(todas) :
                         \A j \in 1..(k - 1) :
                             todas[j].destino_id # todas[k].destino_id}
    IN  [n \in 1..Cardinality(primeiras) |->
            todas[CHOOSE k \in primeiras :
                      Cardinality({j \in primeiras : j <= k}) = n]]

\* the pass over one popped figure: the connections its contracts give
ConexoesDaFigura(atual_id, nivel, visitados, figuras_existentes) ==
    LET DaEntidade(c, e) ==
            LET entidade_id == ResolverEntidade(figuras_existentes, e.nome)
            IN  IF /\ entidade_id # 0
                   /\ entidade_id # atual_id
                   /\ entidade_id \notin visitados
                THEN <<[origem_id |-> atual_id,
                        destino_id |-> entidade_id,
                        destino_nome |-> e.nome,
                        tipo_conexao |-> e.papel,
                        nivel |-> nivel + 1,
                        contrato |-> c.id_contrato]>>
                ELSE <<>>
        DoContrato(c) ==
            LET es == ExtrairEntidadesContrato(c)
            IN  Concat([k \in 1..Len(es) |-> DaEntidade(c, es[k])])
    IN  CHOOSE conexoes \in
            { Concat([i \in 1..Len(cs) |-> DoContrato(cs[i])]) :
                cs \in {PesquisarContratosPorFigura(atual_id)} } : TRUE

\* the append without the test of the level
EntradasDaFilaSempre(novas, nivel, profundidade) ==
    [k \in 1..Len(novas) |->
        [id |-> novas[k].destino_id,
         nivel |-> nivel + 1,
         contrato_origem |-> novas[k].contrato]]

\* the append that gives the entry the level of the popped one
EntradasDaFilaMesmoNivel(novas, nivel, profundidade) ==
    IF nivel + 1 < profundidade
    THEN [k \in 1..Len(novas) |->
             [id |-> novas[k].destino_id,
              nivel |-> nivel,
              contrato_origem |-> novas[k].contrato]]
    ELSE <<>>

\* `if nivel + 1 < profundidade: fila.append(...)`, for the connections of
\* one popped figure
EntradasDaFila(novas, nivel, profundidade) ==
    IF nivel + 1 < profundidade
    THEN [k \in 1..Len(novas) |->
             [id |-> novas[k].destino_id,
              nivel |-> nivel + 1,
              contrato_origem |-> novas[k].contrato]]
    ELSE <<>>

\* the test of a popped entry by its level alone
SaltaSoPeloNivel(e, visitados, profundidade) == e.nivel >= profundidade

\* `if atual_id in visitados or nivel >= profundidade: continue`
Salta(e, visitados, profundidade) ==
    e.id \in visitados \/ e.nivel >= profundidade

\* the while loop: fila holds (figura_id, nivel, contrato_origem). The
\* result is the list returned, with the history of the loop: the entries
\* appended to fila and the ids whose contracts were fetched, in order.
RECURSIVE Explorar(_, _, _, _, _, _)
Explorar(fila, visitados, conexoes, profundidade, figuras_existentes, historia) ==
    IF fila = <<>>
    THEN [conexoes |-> conexoes, postos |-> historia.postos,
          expandidas |-> historia.expandidas]
    ELSE IF Salta(Head(fila), visitados, profundidade)
         THEN Explorar(Tail(fila), visitados, conexoes, profundidade,
                       figuras_existentes, historia)
    ELSE CHOOSE resultado \in
             { Explorar(
                   Tail(fila) \o EntradasDaFila(novas, Head(fila).nivel,
                                                profundidade),
                   visitados \cup {Head(fila).id},
                   conexoes \o novas,
                   profundidade,
                   figuras_existentes,
                   [postos |-> historia.postos
                                   \o EntradasDaFila(novas, Head(fila).nivel,
                                                     profundidade),
                    expandidas |-> Append(historia.expandidas,
                                          Head(fila).id)]) :
                 novas \in { ConexoesDaFigura(Head(fila).id, Head(fila).nivel,
                                              visitados \cup {Head(fila).id},
                                              figuras_existentes) } } : TRUE

DetetarConexoes(figura_id, profundidade) ==
    /\ \E figuras_existentes \in ListarFigurasInteresse :
       \E fim \in { Explorar(<<[id |-> figura_id, nivel |-> 0,
                                 contrato_origem |-> "None"]>>,
                              {}, <<>>, profundidade, figuras_existentes,
                              [postos |-> <<>>, expandidas |-> <<>>]) } :
           retorno' =
               [op |-> "detetar_conexoes",
                figura_id |-> figura_id,
                profundidade |-> profundidade,
                conexoes |-> fim.conexoes,
                postos |-> fim.postos,
                expandidas |-> fim.expandidas]
    /\ UNCHANGED <<pessoas, cargos, associacoes, contratos, conflitos, fios,
                   lista, analise, figuras, entrada>>

\* ---- the calls ----------------------------------------------------------

MaxFiguras == 3
MaxProfundidade == 2

NomeA == <<"A">>
NomeB == <<"B">>
NomeC == <<"C">>

\* (nome, nif) given to adicionar_figura
EntradasFigura ==
    { <<NomeA, NULL>>, <<NomeB, Nif5>>, <<NomeC, NULL>> }

\* contracts between the names: A to B and back, B to C, A to itself, and
\* one where B takes part by its nif only
ContratosConexao ==
    { [id_contrato |-> "K1", adjudicante |-> NomeA, adjudicataria |-> NomeB,
       valor |-> <<1000>>, data_contrato |-> Data1],
      [id_contrato |-> "K2", adjudicante |-> NomeB, adjudicataria |-> NomeA,
       valor |-> <<1000>>, data_contrato |-> Data2],
      [id_contrato |-> "K3", adjudicante |-> NomeB, adjudicataria |-> NomeC,
       valor |-> <<1000>>, data_contrato |-> Data3],
      [id_contrato |-> "K4", adjudicante |-> NomeA, adjudicataria |-> NomeA,
       valor |-> <<1000>>, data_contrato |-> Data0],
      [id_contrato |-> "K5", adjudicante |-> NULL, adjudicataria |-> NomeC,
       adjudicataria_nif |-> NULL, adjudicante_nif |-> Nif5,
       valor |-> <<1000>>, data_contrato |-> Data0] }

InitConexoes ==
    /\ pessoas = <<>>
    /\ cargos = <<>>
    /\ associacoes = <<>>
    /\ contratos = {}
    /\ conflitos = <<>>
    /\ retorno = Nada
    /\ fios = <<>>
    /\ lista = <<>>
    /\ analise = Nada
    /\ figuras = <<>>
    /\ entrada = Nada

NextConexoes ==
    \/ \E e \in EntradasFigura :
           /\ Len(figuras) < MaxFiguras
           /\ AdicionarFiguraInteresse(e[1], e[2])
    \/ \E id \in 1..Len(figuras) : DesativarFiguraInteresse(id)
    \/ \E c \in ContratosConexao : InserirContrato(c)
    \/ \E id \in 1..MaxFiguras, profundidade \in 0..MaxProfundidade :
           DetetarConexoes(id, profundidade)

SpecConexoes == InitConexoes /\ [][NextConexoes]_vars

-----------------------------------------------------------------------------
(* Properties of detetar_conexoes.                                         *)

\* C15: no connection detetar_conexoes returns leads to the figure the
\* search started from, and none leads to its own origin, whatever the
\* figures, the contracts and the depth, cycles of contracts back to the
\* start included.
C15_NuncaDeVoltaAoInicio ==
    retorno.op = "detetar_conexoes" =>
        \A k \in 1..Len(retorno.conexoes) :
            /\ retorno.conexoes[k].destino_id # retorno.figura_id
            /\ retorno.conexoes[k].destino_id # retorno.conexoes[k].origem_id

\* a search of depth 2 or more from A, with the contracts A to B and B to
\* A both stored, that went on from B: a connection at level 2 exists
C15_Testemunha ==
    /\ retorno.op = "detetar_conexoes"
    /\ retorno.profundidade >= 2
    /\ \E i \in 1..Len(figuras) :
           figuras[i].id = retorno.figura_id /\ figuras[i].nome = NomeA
    /\ \E c \in contratos : c.id_contrato = "K1"
    /\ \E c \in contratos : c.id_contrato = "K2"
    /\ \E k \in 1..Len(retorno.conexoes) : retorno.conexoes[k].nivel = 2

-----------------------------------------------------------------------------
(* The search by person.                                                   *)

Pesquisou == retorno.op = "pesquisar_contratos_por_pessoa"

\* the tables of test_associations when the test calls the search: the
\* person, the two companies, the two contracts
FixtureDaPesquisa ==
    /\ Len(pessoas) = 1
    /\ Len(associacoes) = 2
    /\ associacoes[1].empresa_nome # associacoes[2].empresa_nome
    /\ contratos = ContratosFixture

Elementos(s) == {s[i] : i \in 1..Len(s)}

\* C16: on the fixture of test_associations (Joao Silva, associated with the
\* two companies, one contract awarded to each, 250 000 and 50 000, no
\* contract naming the person) pesquisar_contratos_por_pessoa("Joao Silva")
\* returns total_contratos 2, valor_total 300000 and both company names in
\* empresas_associadas.
C16_PesquisaNaFixture ==
    (FixtureDaPesquisa /\ Pesquisou /\ retorno.pessoa = JoaoSilva) =>
        /\ ~retorno.erro
        /\ retorno.total_contratos = 2
        /\ retorno.valor_total = 300000
        /\ {ConstrutoraSilva, ConsultoriaJPS}
               \subseteq Elementos(retorno.empresas_associadas)

C16_Testemunha ==
    /\ FixtureDaPesquisa
    /\ Pesquisou
    /\ retorno.pessoa = JoaoSilva
    /\ retorno.contratos_diretos = <<>>
    /\ Len(retorno.contratos_empresas) = 2
    /\ retorno.total_contratos = 2

\* the value a contract adds to a total that counts a missing value as 0
ValorOuZero(c) == IF c.valor = SemValor THEN 0 ELSE c.valor[1]

RECURSIVE SomaOuZero(_)
SomaOuZero(cs) ==
    IF cs = <<>> THEN 0 ELSE ValorOuZero(Head(cs)) + SomaOuZero(Tail(cs))

Resolve(nome) == PesquisarPessoa(nome) # <<>>

\* C17: for every state of the tables and every name that resolves to a
\* person, the search does not fail, total_contratos is the number of direct
\* contracts plus the number of company contracts and valor_total is the sum
\* of their values, a contract stored without value counting 0.
C17_TotaisDaPesquisa ==
    (Pesquisou /\ Resolve(retorno.pessoa)) =>
        /\ ~retorno.erro
        /\ retorno.total_contratos =
               Len(retorno.contratos_diretos) + Len(retorno.contratos_empresas)
        /\ retorno.valor_total =
               SomaOuZero(retorno.contratos_diretos
                              \o retorno.contratos_empresas)

\* the same totals, for the searches that meet only contracts with a value
C17_TotaisComValor ==
    (Pesquisou /\ Resolve(retorno.pessoa) /\ ~retorno.erro) =>
        /\ retorno.total_contratos =
               Len(retorno.contratos_diretos) + Len(retorno.contratos_empresas)
        /\ retorno.valor_total =
               SomaOuZero(retorno.contratos_diretos
                              \o retorno.contratos_empresas)

\* a search that met a contract stored without value
C17_PesquisaComNulo ==
    /\ Pesquisou
    /\ Resolve(retorno.pessoa)
    /\ retorno.erro
    /\ \E c \in contratos : c.valor = SemValor

\* pessoa_id is an id (not None) and no stored person has it
IdEmFalta(pessoa_id) ==
    /\ pessoa_id # SemValor
    /\ \A i \in 1..Len(pessoas) : pessoas[i].id # pessoa_id[1]

TabelasIguais ==
    UNCHANGED <<pessoas, cargos, associacoes, contratos, conflitos>>

\* the step is a search for a name that matches no stored person
PesquisaEmFalta ==
    /\ retorno'.op = "pesquisar_contratos_por_pessoa"
    /\ ~Resolve(retorno'.pessoa)

\* the step is a detection for an id that no stored person has
DetecaoEmFalta ==
    /\ retorno'.op = "detectar_conflitos_interesse"
    /\ IdEmFalta(retorno'.pessoa_id)

\* C18: a missing person is an empty result, not an error: the search for a
\* name that matches no stored person returns the empty result, also when
\* contracts hold that name, the detection for a person id that does not
\* exist returns the empty list, and neither call writes to the tables.
C18_PessoaEmFalta ==
    [][ /\ PesquisaEmFalta =>
               /\ retorno' = ResultadoDaPesquisa(retorno'.pessoa)
               /\ TabelasIguais
        /\ DetecaoEmFalta =>
               /\ ~retorno'.erro
               /\ retorno'.valor = <<>>
               /\ TabelasIguais ]_vars

\* the half of C18 about the search
C18_PesquisaVazia ==
    [][ PesquisaEmFalta =>
            /\ retorno' = ResultadoDaPesquisa(retorno'.pessoa)
            /\ TabelasIguais ]_vars

\* the half of C18 about the detection, for the ids that are not 0
C18_DetecaoVazia ==
    [][ (DetecaoEmFalta /\ retorno'.pessoa_id # <<0>>) =>
            /\ ~retorno'.erro
            /\ retorno'.valor = <<>>
            /\ TabelasIguais ]_vars

\* a search for a name that no person has and a contract has
C18_PesquisaComContrato ==
    /\ Pesquisou
    /\ retorno.pessoa = AnaCosta
    /\ ~Resolve(AnaCosta)
    /\ \E c \in contratos : c.adjudicataria = AnaCosta
    /\ retorno.total_contratos = 0

\* a detection for the id 0 that returned conflicts
C18_DetecaoDeZero ==
    /\ Detetou
    /\ retorno.pessoa_id = <<0>>
    /\ ~retorno.erro
    /\ retorno.valor # <<>>
    /\ conflitos # <<>>

UmaPessoaPorNome ==
    \A i, j \in 1..Len(pessoas) : pessoas[i].nome = pessoas[j].nome => i = j

\* the step is a call of adicionar_pessoa
AdicionouPessoa == retorno'.op = "adicionar_pessoa"

\* C19: adicionar_pessoa is idempotent by name: the table never holds two
\* persons of one name and no stored person ever changes; a call with a
\* stored name returns the id of the stored person (the one its first call
\* returned), raises nothing, and leaves the table, the fields of that
\* person included, as it was; a call with a new name appends one person and
\* returns its id.
C19_AdicionarPessoaIdempotente ==
    [][ /\ UmaPessoaPorNome'
        /\ Len(pessoas') >= Len(pessoas)
        /\ \A i \in 1..Len(pessoas) : pessoas'[i] = pessoas[i]
        /\ (AdicionouPessoa /\ ExistePessoa(retorno'.nome)) =>
               /\ pessoas' = pessoas
               /\ retorno'.valor = IdPessoa(retorno'.nome)
        /\ (AdicionouPessoa /\ ~ExistePessoa(retorno'.nome)) =>
               /\ Len(pessoas') = Len(pessoas) + 1
               /\ pessoas'[Len(pessoas')].nome = retorno'.nome
               /\ pessoas'[Len(pessoas')].id = retorno'.valor ]_vars

\* Joao Silva, stored as Presidente da Camara with id 1, added again as
\* Vereador after another person was stored
C19_Testemunha ==
    /\ retorno.op = "adicionar_pessoa"
    /\ retorno.nome = JoaoSilva
    /\ retorno.cargo_politico = Vereador
    /\ retorno.valor = 1
    /\ Len(pessoas) = 2
    /\ pessoas[1].nome = JoaoSilva
    /\ pessoas[1].cargo_politico = PresidenteDaCamara

-----------------------------------------------------------------------------
(* Rule 2 on lists of up to MaxFracionamento contracts: two pairs, dates   *)
(* 365 and 366 days apart, a contract without date, a date that is not     *)
(* zero-padded, value sums at and above the ceiling of 75 000.             *)

MaxFracionamento == 4

Data_2024_01_01 == <<"2", "0", "2", "4", "-", "0", "1", "-", "0", "1">>
Data_2024_12_31 == <<"2", "0", "2", "4", "-", "1", "2", "-", "3", "1">>
Data_2025_02_01 == <<"2", "0", "2", "5", "-", "0", "2", "-", "0", "1">>
Data_2024_2_1 == <<"2", "0", "2", "4", "-", "2", "-", "1">>

ContratoFracionado(id_contrato, adjudicataria, valor, data_contrato) ==
    [id_contrato |-> id_contrato,
     adjudicante |-> CamaraMunicipalLisboa,
     adjudicataria |-> adjudicataria,
     valor |-> <<valor>>,
     tipo_contrato |-> AquisicaoServicos,
     tipo_procedimento |-> ConcursoPublico,
     data_contrato |-> data_contrato]

ContratoSemData ==
    [id_contrato |-> "F4",
     adjudicante |-> CamaraMunicipalLisboa,
     adjudicataria |-> EmpresaSuspeita,
     valor |-> <<25000>>,
     tipo_contrato |-> AquisicaoServicos,
     tipo_procedimento |-> ConcursoPublico]

ContratosFracionamento ==
    { ContratoFracionado("F1", EmpresaSuspeita, 30000, Data_2024_01_01),
      ContratoFracionado("F2", EmpresaSuspeita, 25000, Data_2024_12_31),
      ContratoFracionado("F3", EmpresaSuspeita, 30000, Data_2025_02_01),
      ContratoSemData,
      ContratoFracionado("F5", EmpresaSuspeita, 30000, Data_2024_2_1),
      ContratoFracionado("F6", ConstrutoraSilva, 40000, Data_2024_01_01),
      ContratoFracionado("F7", EmpresaSuspeita, 20000, Data_2024_01_01) }

ListasFracionamento ==
    UNION { [1..k -> ContratosFracionamento] : k \in 0..MaxFracionamento }

InitFracionamento ==
    /\ pessoas = <<>>
    /\ cargos = <<>>
    /\ associacoes = <<>>
    /\ contratos = {}
    /\ conflitos = <<>>
    /\ retorno = Nada
    /\ fios = <<>>
    /\ lista \in ListasFracionamento
    /\ analise = Nada
    /\ figuras = <<>>
    /\ entrada = Nada

SpecFracionamento == InitFracionamento /\ [][NextAnalise]_vars

-----------------------------------------------------------------------------
(* Properties of rule 2.                                                   *)

\* the positions of the list held by the contracts of group p
PosicoesDoGrupo(p) ==
    {i \in 1..Len(lista) : ParFracionamento(lista[i]) = p}

Grupos == {ParFracionamento(lista[i]) : i \in 1..Len(lista)}

\* the dated contracts of group p, and the day of each
Datadas(p) == {i \in PosicoesDoGrupo(p) : TemData(lista[i])}

Dia(i) == Ordinal(Strptime(DataContrato(lista[i])))

\* date order: the earlier date first, the list's order between equal dates
AntesNaData(j, i) == Dia(j) < Dia(i) \/ (Dia(j) = Dia(i) /\ j < i)

\* the window that starts at i: the contracts of the group at or after i in
\* date order, not later than 365 days after i
JanelaDe(p, i) ==
    {j \in Datadas(p) :
        /\ ~AntesNaData(j, i)
        /\ Dia(j) <= Dia(i) + 365}

Qualifica(p, i) ==
    /\ Cardinality(JanelaDe(p, i)) >= 3
    /\ SomaDasPosicoes(JanelaDe(p, i)) > get_limite_ajuste_direto(p[3])

GruposFracionados ==
    {p \in Grupos :
        /\ Cardinality(PosicoesDoGrupo(p)) >= 3
        /\ \E i \in Datadas(p) : Qualifica(p, i)}

\* the start of the earliest window of p that qualifies
PrimeiraJanela(p) ==
    CHOOSE i \in Datadas(p) :
        /\ Qualifica(p, i)
        /\ \A j \in Datadas(p) : AntesNaData(j, i) => ~Qualifica(p, j)

\* the ids of the contracts at the positions S, in date order
IdsNaData(S) ==
    [k \in 1..Cardinality(S) |->
        Get(lista[CHOOSE i \in S :
                     Cardinality({j \in S : AntesNaData(j, i)}) = k - 1],
            "id_contrato", NULL)]

\* one 'alta' finding for each group that has a qualifying window, in the
\* order in which the groups first occur, reporting the earliest one
Regra2DoEnunciado ==
    LET achados == DoTipo(analise.valor, {"fracionamento_suspeito"})
        Primeiro(p) == CHOOSE i \in PosicoesDoGrupo(p) :
                           \A j \in PosicoesDoGrupo(p) : i <= j
        Ordem(p) == Cardinality({q \in GruposFracionados :
                                    Primeiro(q) <= Primeiro(p)})
    IN  /\ Len(achados) = Cardinality(GruposFracionados)
        /\ \A p \in GruposFracionados :
               \E janela \in {JanelaDe(p, PrimeiraJanela(p))} :
                   /\ achados[Ordem(p)].gravidade = "alta"
                   /\ achados[Ordem(p)].adjudicante = p[1]
                   /\ achados[Ordem(p)].adjudicataria = p[2]
                   /\ achados[Ordem(p)].num_contratos = Cardinality(janela)
                   /\ achados[Ordem(p)].valor_total = SomaDasPosicoes(janela)
                   /\ achados[Ordem(p)].contratos_ids = IdsNaData(janela)

\* C20: in an analysis that returns, rule 2 gives at most one finding per
\* group (awarder, awardee, category, first 50 characters of the object): an
\* 'alta' finding exactly for a group of at least 3 contracts in which some
\* dated contract, taken as window start in date order, has a window (the
\* contracts of the group at or after it, dated within 365 days of it) of at
\* least 3 contracts whose values sum to more than the direct-award ceiling
\* of the category; the finding reports the earliest such window.
C20_Regra2 ==
    (Analisou /\ ~analise.erro) => Regra2DoEnunciado

\* every date of the list is written YYYY-MM-DD, zero-padded
DatasCanonicas ==
    \A i \in 1..Len(lista) :
        TemData(lista[i]) => Len(DataContrato(lista[i])) = 10

\* rule 2 on the lists whose dates are all zero-padded
C20_Regra2DatasCanonicas ==
    (Analisou /\ ~analise.erro /\ DatasCanonicas) => Regra2DoEnunciado

\* 2024-12-31, 2024-2-1 and 2025-02-01: no 365 days hold the three
\* contracts, and the analysis reports the three as one window
C20_JanelaForaDeOrdem ==
    /\ Analisou
    /\ ~analise.erro
    /\ Len(lista) = 3
    /\ lista[1].id_contrato = "F2"
    /\ lista[2].id_contrato = "F5"
    /\ lista[3].id_contrato = "F3"
    /\ GruposFracionados = {}
    /\ Len(DoTipo(analise.valor, {"fracionamento_suspeito"})) = 1

\* a first window of three contracts at the ceiling, and the finding of
\* the next window
C20_SegundaJanela ==
    /\ Analisou
    /\ ~analise.erro
    /\ DatasCanonicas
    /\ \E p \in GruposFracionados :
           \E i \in Datadas(p) :
               /\ AntesNaData(i, PrimeiraJanela(p))
               /\ Cardinality(JanelaDe(p, i)) >= 3
    /\ Len(DoTipo(analise.valor, {"fracionamento_suspeito"})) = 1

-----------------------------------------------------------------------------
(* Rule 4 on lists of eight or nine contracts of one day with up to        *)
(* MaxCauda + 1 others around them: a day 60 days before, the days 30 and  *)
(* 31 days after, no date, and a date that is not zero-padded.             *)

MaxCauda == 2

Data_2024_11_01 == <<"2", "0", "2", "4", "-", "1", "1", "-", "0", "1">>
Data_2025_01_30 == <<"2", "0", "2", "5", "-", "0", "1", "-", "3", "0">>
Data_2025_01_31 == <<"2", "0", "2", "5", "-", "0", "1", "-", "3", "1">>

ContratoDoDia == ContratoFracionado("T0", EmpresaSuspeita, 1000, Data_2024_12_31)

ContratosConcentracao ==
    { ContratoFracionado("T1", EmpresaSuspeita, 2000, Data_2024_11_01),
      ContratoFracionado("T2", ConstrutoraSilva, 3000, Data_2025_01_30),
      ContratoFracionado("T3", ConstrutoraSilva, 4000, Data_2025_01_31),
      ContratoSemData,
      ContratoFracionado("T5", ConstrutoraSilva, 5000, Data_2024_2_1) }

ListasConcentracao ==
    { antes \o [i \in 1..k |-> ContratoDoDia] \o depois :
        antes \in UNION { [1..n -> ContratosConcentracao] : n \in 0..1 },
        k \in {min_contratos_concentracao - 2, min_contratos_concentracao - 1},
        depois \in UNION { [1..n -> ContratosConcentracao] : n \in 0..MaxCauda } }

InitConcentracao ==
    /\ pessoas = <<>>
    /\ cargos = <<>>
    /\ associacoes = <<>>
    /\ contratos = {}
    /\ conflitos = <<>>
    /\ retorno = Nada
    /\ fios = <<>>
    /\ lista \in ListasConcentracao
    /\ analise = Nada
    /\ figuras = <<>>
    /\ entrada = Nada

SpecConcentracao == InitConcentracao /\ [][NextAnalise]_vars

-----------------------------------------------------------------------------
(* Properties of rule 4.                                                   *)

\* the day of each contract of the list, 0 for a contract without date
DiasDaLista ==
    [i \in 1..Len(lista) |-> IF TemData(lista[i]) THEN Dia(i) ELSE 0]

DatadasDaLista == {i \in 1..Len(lista) : TemData(lista[i])}

\* date order over the days dias
AntesEm(dias, j, i) == dias[j] < dias[i] \/ (dias[j] = dias[i] /\ j < i)

\* the window that starts at i: the dated contracts at or after i in date
\* order, not later than 30 days after i
JanelaDeTrinta(dias, i) ==
    {j \in DatadasDaLista :
        /\ ~AntesEm(dias, j, i)
        /\ dias[j] <= dias[i] + 30}

\* the starts whose window holds at least 10 contracts
Concentradas(dias) ==
    {i \in DatadasDaLista : Cardinality(JanelaDeTrinta(dias, i)) >= 10}

\* at most one finding; one 'media' finding exactly when some window holds
\* 10 contracts, and it is the window of the earliest start
Regra4DoEnunciado ==
    \E dias \in {DiasDaLista} :
    \E inicios \in {Concentradas(dias)} :
        LET achados == DoTipo(analise.valor, {"concentracao_temporal"})
        IN  /\ Len(achados) <= 1
            /\ Len(achados) = 1 <=> inicios # {}
            /\ inicios # {} =>
                   \E i \in inicios :
                       /\ \A j \in inicios : ~AntesEm(dias, j, i)
                       /\ achados[1].gravidade = "media"
                       /\ achados[1].data_inicio = DataContrato(lista[i])
                       /\ achados[1].num_contratos =
                              Cardinality(JanelaDeTrinta(dias, i))
                       /\ achados[1].valor_total =
                              SomaDasPosicoes(JanelaDeTrinta(dias, i))

\* C21: in an analysis that returns, rule 4 gives at most one finding,
\* whatever the number of qualifying windows: a 'media' finding exactly when
\* some dated contract, in date order, starts a window of 30 days holding at
\* least 10 dated contracts, and the finding describes the window of the
\* earliest such start.
C21_Regra4 ==
    (Analisou /\ ~analise.erro) => Regra4DoEnunciado

\* rule 4 on the lists whose dates are all zero-padded
C21_Regra4DatasCanonicas ==
    (Analisou /\ ~analise.erro /\ DatasCanonicas) => Regra4DoEnunciado

\* nine contracts of 31 Dec 2024 and one of 2024-2-1: no 30 days hold ten
\* contracts, and the analysis reports ten in the window of 31 Dec
C21_JanelaForaDeOrdem ==
    /\ Analisou
    /\ ~analise.erro
    /\ Len(lista) = 10
    /\ lista[10].id_contrato = "T5"
    /\ \A i \in 1..9 : lista[i].id_contrato = "T0"
    /\ Concentradas(DiasDaLista) = {}
    /\ Len(DoTipo(analise.valor, {"concentracao_temporal"})) = 1

\* the earliest contract starts a window of one contract, and the finding is
\* the window of the nine of 31 Dec with the one 30 days later
C21_SegundaJanela ==
    /\ Analisou
    /\ ~analise.erro
    /\ DatasCanonicas
    /\ Len(lista) = 11
    /\ lista[1].id_contrato = "T1"
    /\ lista[11].id_contrato = "T2"
    /\ Len(DoTipo(analise.valor, {"concentracao_temporal"})) = 1
    /\ DoTipo(analise.valor, {"concentracao_temporal"})[1].num_contratos = 10

-----------------------------------------------------------------------------
(* analisar_contratos of a detector built with a configuration: the seven  *)
(* detectar_* switches in every combination, the thresholds as by default. *)

Interruptores ==
    {"detectar_valores_suspeitos", "detectar_fracionamento",
     "detectar_contratos_repetidos", "detectar_concentracao_temporal",
     "detectar_valores_redondos", "detectar_procedimento_inadequado",
     "detectar_vesperas_feriados"}

Configuracoes == [Interruptores -> BOOLEAN]

\* analisar_contratos: the rules that are switched on, in the order of the
\* code
PadroesCom(cs, config) ==
    Juntar(<<IF config["detectar_valores_suspeitos"]
             THEN DetectarValoresSuspeitos(cs) ELSE SemPadroes,
             IF config["detectar_fracionamento"]
             THEN DetectarFracionamento(cs) ELSE SemPadroes,
             IF config["detectar_contratos_repetidos"]
             THEN DetectarContratosRepetidos(cs) ELSE SemPadroes,
             IF config["detectar_concentracao_temporal"]
             THEN DetectarConcentracaoTemporal(cs) ELSE SemPadroes,
             IF config["detectar_valores_redondos"]
             THEN DetectarValoresRedondos(cs) ELSE SemPadroes,
             IF config["detectar_procedimento_inadequado"]
             THEN DetectarProcedimentoInadequado(cs) ELSE SemPadroes,
             IF config["detectar_vesperas_feriados"]
             THEN DetectarVesperasFeriados(cs) ELSE SemPadroes>>)

\* SuspiciousPatternDetector(config).analisar_contratos(lista)
AnalisarContratosCom ==
    /\ entrada.op = "SuspiciousPatternDetector"
    /\ \E r \in {PadroesCom(lista, entrada.config)} :
           analise' = [op |-> "analisar_contratos",
                       erro |-> r.erro,
                       valor |-> r.padroes]
    /\ UNCHANGED <<pessoas, cargos, associacoes, contratos, conflitos,
                   retorno, fios, lista, figuras, entrada>>

\* the lists of one contract, three contracts of one group above its
\* ceiling, and ten contracts of one pair within 30 days
ListasConfiguracao ==
    ListasAte(1)
        \cup { [i \in 1..3 |->
                   ContratoFracionado("F1", EmpresaSuspeita, 30000,
                                      Data_2024_01_01)],
               [i \in 1..10 |-> ContratoDoDia] }

InitConfiguracao ==
    /\ pessoas = <<>>
    /\ cargos = <<>>
    /\ associacoes = <<>>
    /\ contratos = {}
    /\ conflitos = <<>>
    /\ retorno = Nada
    /\ fios = <<>>
    /\ lista \in ListasConfiguracao
    /\ analise = Nada
    /\ figuras = <<>>
    /\ entrada \in { [op |-> "SuspiciousPatternDetector", config |-> c] :
                        c \in Configuracoes }

NextConfiguracao == AnalisarContratosCom

SpecConfiguracao == InitConfiguracao /\ [][NextConfiguracao]_vars

-----------------------------------------------------------------------------
(* The scale of the findings.                                              *)

Gravidades(ps) == {ps[i].gravidade : i \in 1..Len(ps)}

\* C22: every finding returned by analisar_contratos, for every list and
\* every combination of the switches of the rules, has gravidade 'baixa',
\* 'media' or 'alta', never 'critica', which only the conflicts of
\* detectar_conflitos_interesse have.
C22_GravidadeDosPadroes ==
    Analisou => Gravidades(analise.valor) \subseteq {"baixa", "media", "alta"}

\* an analysis with a rule switched off that found an 'alta' and a 'media'
\* finding
C22_Testemunha ==
    /\ Analisou
    /\ ~analise.erro
    /\ ~entrada.config["detectar_valores_suspeitos"]
    /\ {"alta", "media"} \subseteq Gravidades(analise.valor)

\* an analysis that found a 'baixa' finding
C22_TestemunhaBaixa ==
    /\ Analisou
    /\ "baixa" \in Gravidades(analise.valor)

DetetouConexoes == retorno.op = "detetar_conexoes"

\* C23: every connection detetar_conexoes(figura_id, profundidade) returns
\* has 1 <= nivel <= profundidade; every entry put in the queue after the
\* seed has nivel < profundidade; and a call with profundidade <= 0 returns
\* the empty list without fetching the contracts of any figure.
C23_NiveisDentroDaProfundidade ==
    DetetouConexoes =>
        /\ \A k \in 1..Len(retorno.conexoes) :
               /\ 1 <= retorno.conexoes[k].nivel
               /\ retorno.conexoes[k].nivel <= retorno.profundidade
        /\ \A k \in 1..Len(retorno.postos) :
               retorno.postos[k].nivel < retorno.profundidade
        /\ retorno.profundidade <= 0 =>
               /\ retorno.conexoes = <<>>
               /\ retorno.expandidas = <<>>

\* a search of depth 2 that queued a figure at level 1 and returned a
\* connection at level 2
C23_Testemunha ==
    /\ DetetouConexoes
    /\ retorno.profundidade = 2
    /\ \E k \in 1..Len(retorno.postos) : retorno.postos[k].nivel = 1
    /\ \E k \in 1..Len(retorno.conexoes) : retorno.conexoes[k].nivel = 2

\* a search of depth 0 from a figure that has contracts with another figure
C23_TestemunhaZero ==
    /\ DetetouConexoes
    /\ retorno.profundidade = 0
    /\ retorno.conexoes = <<>>
    /\ \E i \in 1..Len(figuras) :
           /\ figuras[i].id = retorno.figura_id
           /\ figuras[i].nome = NomeA
    /\ \E i \in 1..Len(figuras) :
           figuras[i].nome = NomeB /\ figuras[i].ativo = 1
    /\ \E c \in contratos : c.id_contrato = "K1"

\* the figure of id figura_id, which is its position in the table
FiguraDeId(figura_id) == figuras[figura_id]

ExisteFigura(figura_id) == figura_id \in 1..Len(figuras)

\* the contract names figure f as its party of the given column, by name
\* (case apart)
Nomeia(coluna, f) ==
    TextoVerdadeiro(coluna) /\ Lower(coluna) = Lower(f.nome)

\* figure f takes part in the contract by the given column: its name occurs
\* in the column or its nif is the column's nif, as the lookup by figure has
\* it
TomaParte(coluna, coluna_nif, f) ==
    \/ coluna # NULL /\ Like(coluna, <<"%">> \o f.nome \o <<"%">>)
    \/ TextoVerdadeiro(f.nif) /\ coluna_nif = f.nif

\* the contracts whose two parties are s and b
ContratosEntre(s, b) ==
    { c \in contratos :
        \/ /\ TomaParte(c.adjudicante, Get(c, "adjudicante_nif", NULL), s)
           /\ Nomeia(c.adjudicataria, b)
        \/ /\ TomaParte(c.adjudicataria, Get(c, "adjudicataria_nif", NULL), s)
           /\ Nomeia(c.adjudicante, b) }

\* b is active and the only active figure of its name
UnicaDoNome(b) ==
    /\ b.ativo = 1
    /\ \A i \in 1..Len(figuras) :
           (figuras[i].ativo = 1 /\ Lower(figuras[i].nome) = Lower(b.nome))
               => figuras[i].id = b.id

\* the contracts of the connections of cs that lead to figure b, in order
ContratosPara(cs, b) ==
    LET Leva(c) == c.destino_id = b.id
        para == SelectSeq(cs, Leva)
    IN  [k \in 1..Len(para) |-> para[k].contrato]

-----------------------------------------------------------------------------
(* The active flag.                                                        *)

\* the end date is absent: None or ''
SemDataFim(linha) == linha.data_fim = NULL \/ linha.data_fim = <<>>

\* C25: in every state reached by associar_pessoa_empresa and
\* adicionar_cargo_politico, an association and a position are active
\* exactly when they have no end date, so that a row created with an end
\* date is inactive from its creation; and detectar_conflitos_interesse
\* ignores the inactive rows: each conflict it returns is of an active
\* position and an active association of its person.
C25_AtivoSemDataFim ==
    /\ \A i \in 1..Len(associacoes) :
           associacoes[i].ativo = 1 <=> SemDataFim(associacoes[i])
    /\ \A i \in 1..Len(cargos) :
           cargos[i].ativo = 1 <=> SemDataFim(cargos[i])
    /\ \A i \in 1..Len(associacoes) : associacoes[i].ativo \in {0, 1}
    /\ \A i \in 1..Len(cargos) : cargos[i].ativo \in {0, 1}
    /\ (Detetou /\ ~retorno.erro) =>
           \A k \in 1..Len(retorno.valor) :
               /\ \E i \in 1..Len(cargos) :
                      /\ cargos[i].pessoa_id = retorno.valor[k].pessoa_id
                      /\ cargos[i].cargo = retorno.valor[k].cargo
                      /\ SemDataFim(cargos[i])
               /\ \E i \in 1..Len(associacoes) :
                      /\ associacoes[i].pessoa_id = retorno.valor[k].pessoa_id
                      /\ associacoes[i].empresa_nome = retorno.valor[k].empresa
                      /\ SemDataFim(associacoes[i])

\* Joao Silva holds an active position and his only association, with the
\* company of a contract of the Camara, has an end date: the detection
\* returns nothing
C25_Testemunha ==
    /\ Detetou
    /\ ~retorno.erro
    /\ retorno.valor = <<>>
    /\ conflitos = <<>>
    /\ Len(cargos) = 1
    /\ SemDataFim(cargos[1])
    /\ Len(associacoes) = 1
    /\ associacoes[1].data_fim = DataFim
    /\ associacoes[1].ativo = 0
    /\ associacoes[1].empresa_nome = ConstrutoraSilva
    /\ \E c \in contratos : c.id_contrato = "ASSOC001"

\* the same with the end date on the position
C25_TestemunhaCargo ==
    /\ Detetou
    /\ ~retorno.erro
    /\ retorno.valor = <<>>
    /\ Len(cargos) = 1
    /\ cargos[1].data_fim = DataFim
    /\ cargos[1].ativo = 0
    /\ Len(associacoes) = 1
    /\ associacoes[1].ativo = 1
    /\ \E c \in contratos : c.id_contrato = "ASSOC001"

\* a conflict of a position and an association created with data_fim ''
C25_TestemunhaVazia ==
    /\ Detetou
    /\ ~retorno.erro
    /\ retorno.valor # <<>>
    /\ Len(cargos) = 1
    /\ cargos[1].data_fim = <<>>
    /\ Len(associacoes) = 1
    /\ associacoes[1].data_fim = <<>>

-----------------------------------------------------------------------------
(* What a detection writes.                                                *)

\* C26: detectar_conflitos_interesse changes the tables only by adding rows
\* to conflitos: after the call, returned or raised, every row stored before
\* it is in its place with the same fields (gravidade, descricao and
\* verificado included, also when the call computes another gravidade for
\* its pair), every row added has verificado 0, and pessoas, cargos,
\* associacoes and contratos are the ones of before.
C26_DetecaoSoAcrescenta ==
    [][retorno'.op = "detectar_conflitos_interesse" =>
           /\ Len(conflitos') >= Len(conflitos)
           /\ \A i \in 1..Len(conflitos) : conflitos'[i] = conflitos[i]
           /\ \A i \in (Len(conflitos) + 1)..Len(conflitos') :
                  conflitos'[i].verificado = 0
           /\ pessoas' = pessoas
           /\ cargos' = cargos
           /\ associacoes' = associacoes
           /\ contratos' = contratos ]_vars

\* a detection has returned, for a pair that has a stored row, a conflict
\* with another gravidade and another descricao than the row's
C26_Testemunha ==
    /\ Devolveu
    /\ \E k \in 1..Len(retorno.valor) : \E i \in 1..Len(conflitos) :
           /\ conflitos[i].pessoa_id = retorno.valor[k].pessoa_id
           /\ conflitos[i].id_contrato = retorno.valor[k].id_contrato
           /\ conflitos[i].gravidade # retorno.valor[k].gravidade
           /\ conflitos[i].descricao # retorno.valor[k].descricao
           /\ conflitos[i].verificado = 0

-----------------------------------------------------------------------------
(* One person, several positions.                                          *)

\* the positions in the returned list of the conflicts of a pair
DoParDevolvido(valor, pessoa_id, id_contrato) ==
    {k \in 1..Len(valor) : /\ valor[k].pessoa_id = pessoa_id
                           /\ valor[k].id_contrato = id_contrato}

\* C28: the list a detection returns has at most one conflict per
\* (pessoa_id, id_contrato), and the gravidade returned for a pair is the
\* one stored for it, whatever the order of the person's positions.
C28_UmConflitoPorPar ==
    Devolveu =>
        /\ \A j, k \in 1..Len(retorno.valor) :
               k \in DoParDevolvido(retorno.valor, retorno.valor[j].pessoa_id,
                           retorno.valor[j].id_contrato) => j = k
        /\ \A k \in 1..Len(retorno.valor) : \A i \in 1..Len(conflitos) :
               (/\ conflitos[i].pessoa_id = retorno.valor[k].pessoa_id
                /\ conflitos[i].id_contrato = retorno.valor[k].id_contrato)
                   => conflitos[i].gravidade = retorno.valor[k].gravidade

\* what does hold: the stored rows are one per pair
C28_UmaLinhaPorPar ==
    Devolveu =>
        \A i, j \in 1..Len(conflitos) :
            (/\ conflitos[i].pessoa_id = conflitos[j].pessoa_id
             /\ conflitos[i].id_contrato = conflitos[j].id_contrato) => i = j

\* Joao Silva is Vereador and Presidente da Camara, both active: two
\* conflicts of (1, ASSOC003) are returned, 'media' and 'alta', and the row
\* stored is of the position that was created first
C28_DoisCargos ==
    /\ Devolveu
    /\ Len(retorno.valor) = 2
    /\ retorno.valor[1].id_contrato = "ASSOC003"
    /\ retorno.valor[2].id_contrato = "ASSOC003"
    /\ retorno.valor[1].pessoa_id = retorno.valor[2].pessoa_id
    /\ retorno.valor[1].gravidade = "media"
    /\ retorno.valor[2].gravidade = "alta"
    /\ Len(conflitos) = 1
    /\ conflitos[1].gravidade = "media"

\* the positions created in the other order: the row stored is 'alta'
C28_DoisCargosTrocados ==
    /\ Devolveu
    /\ Len(retorno.valor) = 2
    /\ retorno.valor[1].id_contrato = "ASSOC003"
    /\ retorno.valor[2].id_contrato = "ASSOC003"
    /\ retorno.valor[1].pessoa_id = retorno.valor[2].pessoa_id
    /\ retorno.valor[1].gravidade = "alta"
    /\ retorno.valor[2].gravidade = "media"
    /\ Len(conflitos) = 1
    /\ conflitos[1].gravidade = "alta"

-----------------------------------------------------------------------------
(* A position without entity.                                              *)

\* an active position of the conflict's person and title whose entity is
\* not empty and occurs in the conflict's awarder
CargoDaEntidade(conflito) ==
    \E i \in 1..Len(cargos) :
        /\ cargos[i].pessoa_id = conflito.pessoa_id
        /\ cargos[i].cargo = conflito.cargo
        /\ cargos[i].ativo = 1
        /\ cargos[i].entidade # <<>>
        /\ Contem(Lower(conflito.adjudicante), Lower(cargos[i].entidade))

\* C29: a conflict returned with gravidade 'critica' is of an active
\* position whose entity is not empty and occurs in the awarder's name; the
\* conflicts of a position without entity are 'alta' or 'media'.
C29_CriticaSoComEntidade ==
    Devolveu =>
        \A k \in 1..Len(retorno.valor) :
            retorno.valor[k].gravidade = "critica"
                => CargoDaEntidade(retorno.valor[k])

\* the only position of Joao Silva is Vereador, without entity, and the
\* conflict returned and stored for a contract of the Junta is 'critica'
C29_CriticaSemEntidade ==
    /\ Devolveu
    /\ Len(cargos) = 1
    /\ cargos[1].entidade = <<>>
    /\ cargos[1].cargo = Vereador
    /\ Len(retorno.valor) = 1
    /\ retorno.valor[1].gravidade = "critica"
    /\ retorno.valor[1].adjudicante = JuntaFreguesiaBelem
    /\ Len(conflitos) = 1
    /\ conflitos[1].gravidade = "critica"

\* what does hold: with an entity that is not empty, 'critica' is the
\* severity exactly of the conflicts whose awarder contains it
C29_CriticaComEntidade ==
    (Devolveu /\ \A i \in 1..Len(cargos) : cargos[i].entidade # <<>>) =>
        \A k \in 1..Len(retorno.valor) :
            retorno.valor[k].gravidade = "critica"
                <=> CargoDaEntidade(retorno.valor[k])

-----------------------------------------------------------------------------
(* detetar_conexoes, one iteration of its while loop at a time.            *)

MaxProfundidadeLaco == 3

\* the call in progress: fios holds its local variables
EmCurso == fios # <<>>

\* a sixth contract, A to C, so that C is reached from A directly and
\* through B
ContratoAC ==
    [id_contrato |-> "K6", adjudicante |-> NomeA, adjudicataria |-> NomeC,
     valor |-> <<1000>>, data_contrato |-> Data0]

ContratosLaco == ContratosConexao \cup {ContratoAC}

\* the three figures, active, as adicionar_figura_interesse stores them
FigurasLaco ==
    <<[id |-> 1, nome |-> NomeA, nif |-> NULL, ativo |-> 1],
      [id |-> 2, nome |-> NomeB, nif |-> Nif5, ativo |-> 1],
      [id |-> 3, nome |-> NomeC, nif |-> NULL, ativo |-> 1]>>

\* conexoes = [], visitados = set(), fila = [(figura_id, 0, None)]
IniciarConexoes(figura_id, profundidade) ==
    /\ ~EmCurso
    /\ \E figuras_existentes \in ListarFigurasInteresse :
           fios' = <<[pc |-> "while",
                      figura_id |-> figura_id,
                      profundidade |-> profundidade,
                      figuras_existentes |-> figuras_existentes,
                      fila |-> <<[id |-> figura_id, nivel |-> 0,
                                  contrato_origem |-> "None"]>>,
                      visitados |-> {},
                      conexoes |-> <<>>,
                      postos |-> <<>>,
                      expandidas |-> <<>>]>>
    /\ retorno' = Nada
    /\ UNCHANGED <<pessoas, cargos, associacoes, contratos, conflitos, lista,
                   analise, figuras, entrada>>

\* one iteration of `while fila:` on the local variables f of the call:
\* fila.pop(0), the test, and for an entry that passes it the two for loops
\* over the figure's contracts
Iteracao(f) ==
    IF Salta(Head(f.fila), f.visitados, f.profundidade)
    THEN [f EXCEPT !.fila = Tail(f.fila)]
    ELSE CHOOSE g \in
             { [f EXCEPT
                   !.fila = Tail(f.fila)
                                \o EntradasDaFila(novas, e.nivel,
                                                  f.profundidade),
                   !.visitados = f.visitados \cup {e.id},
                   !.conexoes = f.conexoes \o novas,
                   !.postos = f.postos
                                  \o EntradasDaFila(novas, e.nivel,
                                                    f.profundidade),
                   !.expandidas = Append(f.expandidas, e.id)] :
                 <<e, novas>> \in
                     { <<Head(f.fila),
                         ConexoesDaFigura(Head(f.fila).id, Head(f.fila).nivel,
                                          f.visitados \cup {Head(f.fila).id},
                                          f.figuras_existentes)>> } } : TRUE

IterarConexoes ==
    /\ EmCurso
    /\ fios[1].fila # <<>>
    /\ \E f \in {fios[1]} : \E g \in {Iteracao(f)} : fios' = <<g>>
    /\ UNCHANGED <<pessoas, cargos, associacoes, contratos, conflitos,
                   retorno, lista, analise, figuras, entrada>>

\* fila is empty: return conexoes
RetornarConexoes ==
    /\ EmCurso
    /\ fios[1].fila = <<>>
    /\ retorno' = [op |-> "detetar_conexoes",
                   figura_id |-> fios[1].figura_id,
                   profundidade |-> fios[1].profundidade,
                   conexoes |-> fios[1].conexoes,
                   postos |-> fios[1].postos,
                   expandidas |-> fios[1].expandidas]
    /\ fios' = <<>>
    /\ UNCHANGED <<pessoas, cargos, associacoes, contratos, conflitos, lista,
                   analise, figuras, entrada>>

InitLaco ==
    /\ pessoas = <<>>
    /\ cargos = <<>>
    /\ associacoes = <<>>
    /\ contratos \in SUBSET ContratosLaco
    /\ conflitos = <<>>
    /\ retorno = Nada
    /\ fios = <<>>
    /\ lista = <<>>
    /\ analise = Nada
    /\ figuras = FigurasLaco
    /\ entrada = Nada

NextLaco ==
    \/ \E id \in 1..MaxFiguras, profundidade \in 0..MaxProfundidadeLaco :
           IniciarConexoes(id, profundidade)
    \/ IterarConexoes
    \/ RetornarConexoes

\* the caller's thread runs the loop: an iteration that can be taken is
\* taken, and so is the return
SpecLaco ==
    /\ InitLaco
    /\ [][NextLaco]_vars
    /\ WF_vars(IterarConexoes)
    /\ WF_vars(RetornarConexoes)

\* the number of times x occurs in the sequence s
Ocorrencias(s, x) == Cardinality({k \in 1..Len(s) : s[k] = x})

\* the ids of the entries of a sequence of fila entries
IdsDasEntradas(es) == [k \in 1..Len(es) |-> es[k].id]

\* C27: every call of detetar_conexoes returns, whatever the contracts
\* (cycles among the figures included) and the depth, and during a call the
\* contracts of a figure are fetched at most once, although its id may be
\* in fila several times at once.
C27_TerminaEExpandeUmaVez ==
    /\ EmCurso ~> ~EmCurso
    /\ [](EmCurso =>
            \A k \in 1..Len(fios[1].expandidas) :
                Ocorrencias(fios[1].expandidas, fios[1].expandidas[k]) = 1)
    /\ [](retorno.op = "detetar_conexoes" =>
            \A k \in 1..Len(retorno.expandidas) :
                Ocorrencias(retorno.expandidas, retorno.expandidas[k]) = 1)

\* the loop, iteration by iteration, returns what Explorar computes
C27_PassoAPasso ==
    [][retorno'.op = "detetar_conexoes" =>
           \E fim \in { Explorar(<<[id |-> fios[1].figura_id, nivel |-> 0,
                                   contrato_origem |-> "None"]>>,
                                {}, <<>>, fios[1].profundidade,
                                fios[1].figuras_existentes,
                                [postos |-> <<>>, expandidas |-> <<>>]) } :
               /\ retorno'.conexoes = fim.conexoes
               /\ retorno'.postos = fim.postos
               /\ retorno'.expandidas = fim.expandidas ]_vars

\* with the contracts A to B and B to A, a search from A of depth 2 or
\* more holds B twice in fila, not yet popped
C27_Testemunha ==
    /\ EmCurso
    /\ fios[1].figura_id = 1
    /\ fios[1].expandidas = <<1>>
    /\ Ocorrencias(IdsDasEntradas(fios[1].fila), 2) >= 2

\* the call of that search has returned: B was put in fila twice and its
\* contracts were fetched once, and the cycle back to A was not followed
C27_TestemunhaRetorno ==
    /\ retorno.op = "detetar_conexoes"
    /\ retorno.profundidade = MaxProfundidadeLaco
    /\ Ocorrencias(IdsDasEntradas(retorno.postos), 2) >= 2
    /\ Ocorrencias(retorno.expandidas, 2) = 1
    /\ Ocorrencias(retorno.expandidas, 1) = 1
    /\ \E c \in contratos : c.id_contrato = "K2"

-----------------------------------------------------------------------------
(* Levels and distances.                                                   *)

\* the figures one contract link away from x: the destinations of the
\* connections its contracts give when nothing has been visited
Vizinhos(x) ==
    LET cs == ConexoesDaFiguraSemVisitados(
                  x, 0, {}, CHOOSE l \in ListarFigurasInteresse : TRUE)
    IN  {cs[k].destino_id : k \in 1..Len(cs)}

\* the figures at n links or fewer from the start
RECURSIVE Alcance(_, _)
Alcance(inicio, n) ==
    IF n = 0 THEN {inicio}
    ELSE CHOOSE mais \in
             { perto \cup UNION {Vizinhos(x) : x \in perto} :
                 perto \in {Alcance(inicio, n - 1)} } : TRUE

\* the length of the shortest chain of links from the start to y (for a y
\* that a chain of MaxFiguras links or fewer reaches)
Distancia(inicio, y) ==
    CHOOSE n \in 0..MaxFiguras :
        /\ y \in Alcance(inicio, n)
        /\ \A m \in 0..(n - 1) : y \notin Alcance(inicio, m)

\* the smallest level at which y is a destination in the list
MenorNivel(conexoes, y) ==
    CHOOSE n \in 1..(MaxProfundidadeLaco + 1) :
        /\ \E k \in 1..Len(conexoes) :
               conexoes[k].destino_id = y /\ conexoes[k].nivel = n
        /\ \A k \in 1..Len(conexoes) :
               conexoes[k].destino_id = y => conexoes[k].nivel >= n

EDestino(conexoes, y) ==
    \E k \in 1..Len(conexoes) : conexoes[k].destino_id = y

\* C30 as stated: the level of every connection is the distance of its
\* destination from the start, no destination is reported at a level above
\* its smallest one, and a connection of level k > 1 has as origin the
\* destination of a connection of level k - 1.
C30_NivelEDistancia ==
    retorno.op = "detetar_conexoes" =>
        \A k \in 1..Len(retorno.conexoes) :
            LET c == retorno.conexoes[k]
            IN  /\ c.nivel = Distancia(retorno.figura_id, c.destino_id)
                /\ c.nivel = MenorNivel(retorno.conexoes, c.destino_id)
                /\ c.nivel > 1 =>
                       \E j \in 1..Len(retorno.conexoes) :
                           /\ retorno.conexoes[j].destino_id = c.origem_id
                           /\ retorno.conexoes[j].nivel = c.nivel - 1

\* C30, amended: the level of a connection is one more than the distance
\* of its ORIGIN from the start: 1 when the origin is the start, and
\* otherwise one more than the smallest level at which the origin is
\* reported as a destination, which is the origin's distance. So the
\* smallest level at which a destination is reported is its distance, a
\* destination may also be reported one level above it (never more), and
\* every figure at a distance from 1 to the depth is reported.
C30_NivelDaOrigem ==
    retorno.op = "detetar_conexoes" =>
        /\ \A k \in 1..Len(retorno.conexoes) :
               LET c == retorno.conexoes[k]
                   menor == MenorNivel(retorno.conexoes, c.destino_id)
               IN  /\ c.nivel = 1 + Distancia(retorno.figura_id, c.origem_id)
                   /\ c.origem_id = retorno.figura_id => c.nivel = 1
                   /\ c.origem_id # retorno.figura_id =>
                          /\ EDestino(retorno.conexoes, c.origem_id)
                          /\ c.nivel =
                                 1 + MenorNivel(retorno.conexoes, c.origem_id)
                   /\ menor = Distancia(retorno.figura_id, c.destino_id)
                   /\ c.nivel \in {menor, menor + 1}
        /\ \A y \in 1..Len(figuras) :
               (\E n \in 1..MaxFiguras :
                    /\ n <= retorno.profundidade
                    /\ y \in Alcance(retorno.figura_id, n)
                    /\ y # retorno.figura_id)
                   => EDestino(retorno.conexoes, y)

\* a search from A of depth 2 or more with the contracts A to B, A to C and
\* B to C: C is reported at level 1, from A, and at level 2, from B
C30_Testemunha ==
    /\ retorno.op = "detetar_conexoes"
    /\ retorno.figura_id = 1
    /\ \E j, k \in 1..Len(retorno.conexoes) :
           /\ retorno.conexoes[j].destino_id = 3
           /\ retorno.conexoes[j].origem_id = 1
           /\ retorno.conexoes[j].nivel = 1
           /\ retorno.conexoes[j].contrato = "K6"
           /\ retorno.conexoes[k].destino_id = 3
           /\ retorno.conexoes[k].origem_id = 2
           /\ retorno.conexoes[k].nivel = 2
           /\ retorno.conexoes[k].contrato = "K3"

====
